---- MODULE Spec2Model ----
(***************************************************************************)
(* Model of the atelier-assets daemon file tracker                         *)
(* (daemon/src/file_tracker.rs): the three LMDB tables source_files,       *)
(* dirty_files and rename_file_events, the watcher event handlers that     *)
(* update them inside the run loop's batch transaction, and the downstream *)
(* operations add_dirty_file, delete_dirty_file_state and                  *)
(* clear_rename_events; and the run loop itself: run(), stop(), the        *)
(* listener list, the debounce timer and the batch transaction.            *)
(*                                                                         *)
(* Spec follows the tables through every handler and downstream operation, *)
(* with no listener registered. RunSpec follows run() and stop() step by   *)
(* step over a small event alphabet; FairRunSpec adds the scheduling the   *)
(* executor gives.                                                         *)
(*                                                                         *)
(* ReplaySpec feeds one watcher event stream to two databases that start   *)
(* empty and cuts it into batches independently for each. PackSpec and     *)
(* FairPackSpec follow the packfile loader (loader/src/packfile_io.rs):    *)
(* the indices built when a packfile is opened, and the requests served by *)
(* spawned tasks. HashSpec applies calc_import_artifact_hash               *)
(* (core/src/utils.rs) to pairs of arguments.                              *)
(* StorageSpec follows the calls made on the example asset storage         *)
(* (examples/handle_integration/src/storage.rs), ImportSpec the imports of *)
(* the RON importer (importer/src/ron_importer.rs) on one threaded state,  *)
(* UuidSpec the text and binary forms of AssetUuid and AssetTypeId and     *)
(* uuid_from_slice (core/src/utils.rs, core/tests/uuid.rs).                *)
(*                                                                         *)
(* A path is the byte string of its canonical form (the table key is       *)
(* path.to_string_lossy().as_bytes()), written as a tuple of byte codes:   *)
(* 47 is '/', 97 'a', 98 'b', 100 'd', 121 'y'.                            *)
(***************************************************************************)
EXTENDS Integers, Sequences, FiniteSets, TLC

VARIABLES
    source_files,        \* Path -> SourceFileInfo, as seen through the open write transaction
    dirty_files,         \* Path -> DirtyFileInfo, as seen through the open write transaction
    rename_file_events,  \* SequenceNum -> RenameFileEvent, same view
    committed,           \* the three tables as of the last commit
    txn_open,            \* the run loop holds its batch write transaction
    scan_stack,          \* run()'s local Vec<ScanContext>
    is_running,          \* FileTracker::is_running
    evt,                 \* the operation handled last (in RunSpec: run()'s last step), with its locals
    assigned,            \* history: sequence numbers given out by add_rename_event, in order
    scan_seen,           \* history: per open scan, the paths reported since its ScanStart
    nops,                \* number of table operations handled so far
    run_pc,              \* where the run() invocation that won the compare-and-swap stands
    stop_pc,             \* where the stop() call stands
    stopping,            \* run()'s listener on stopping_event has been notified
    listener_rx_locked,  \* the Mutex around listener_rx is held (by run())
    listener_chan,       \* senders pushed by register_listener, not yet taken by the run loop
    listeners,           \* run()'s local ListenersList
    closed,              \* listeners whose receiving end has been dropped
    update_debounce,     \* run()'s debounce timer: "terminated" or "armed"
    txn_dirty,           \* RwTransaction::dirty of the batch transaction
    unannounced,         \* history: a batch was committed and no Update was sent since
    early,               \* history: senders registered before run() started, not yet taken by its loop
    watcher_rx,          \* run()'s receiver of the watcher's events: "open", or "terminated" once it has yielded None
    stream,              \* ReplaySpec: the events the watcher has sent so far
    replay,              \* ReplaySpec: per database, the tracker's tables, transaction and position in stream
    packfile,            \* the entries of the opened packfile
    index_by_uuid,       \* PackfileReaderInner::index_by_uuid
    assets_by_path,      \* PackfileReaderInner::assets_by_path
    tasks,               \* the tasks spawned on the loader's runtime that have not run yet
    callbacks,           \* per request handed to the loader, the callbacks invoked on it, in order
    hash_calls,          \* HashSpec: the calls of calc_import_artifact_hash, arguments and result
    storage,             \* StorageSpec: the example's Storage<A>: assets, uncommitted, indirection_table
    storage_calls,       \* StorageSpec, history: the calls made on the storage, in order
    importer_state,      \* ImportSpec: the RonImporterState threaded through the imports
    imports,             \* ImportSpec, history: per import call, state.id before it and what it returned
    uuid_io              \* UuidSpec: an AssetUuid, a byte slice, and what the conversions gave

\* the run loop's side of the state, which Spec leaves alone
nvars == <<run_pc, stop_pc, stopping, listener_rx_locked,
           listener_chan, listeners, closed, update_debounce, txn_dirty,
           unannounced, early, watcher_rx>>

\* the state of the file tracker
tvars == <<source_files, dirty_files, rename_file_events, committed, txn_open,
           scan_stack, is_running, evt, assigned, scan_seen, nops, run_pc,
           stop_pc, stopping, listener_rx_locked, listener_chan,
           listeners, closed, update_debounce, txn_dirty, unannounced, early,
           watcher_rx>>

\* the replayed databases, the packfile loader and the hash calls, which the
\* file tracker's specifications leave alone
ovars == <<stream, replay, packfile, index_by_uuid, assets_by_path, tasks,
           callbacks, hash_calls, storage, storage_calls, importer_state,
           imports, uuid_io>>

\* the replayed databases, the packfile loader and the hash calls alone
lvars == <<stream, replay, packfile, index_by_uuid, assets_by_path, tasks,
           callbacks, hash_calls>>

\* the example storage, the RON importer and the uuid conversions
xvars == <<storage, storage_calls, importer_state, imports, uuid_io>>

vars == <<source_files, dirty_files, rename_file_events, committed, txn_open,
          scan_stack, is_running, evt, assigned, scan_seen, nops, run_pc,
          stop_pc, stopping, listener_rx_locked, listener_chan,
          listeners, closed, update_debounce, txn_dirty, unannounced, early,
          watcher_rx, stream, replay, packfile, index_by_uuid, assets_by_path, tasks,
          callbacks, hash_calls, storage, storage_calls, importer_state,
          imports, uuid_io>>

----------------------------------------------------------------------------
(* Bounds and input sets *)

MaxOps == 3

RootA == <<47, 97>>
RootAD == <<47, 97, 47, 100>>
PathADY == <<47, 97, 47, 100, 47, 121>>
PathAB == <<47, 97, 98>>

Paths == {PathADY, PathAB}
Roots == {RootA, RootAD}
WatchedDirSets == {{RootA}, {RootAD}}

MetaFile == [file_type |-> "file", last_modified |-> 1, length |-> 1]
MetaTruncated == [file_type |-> "file", last_modified |-> 2, length |-> 0]
MetaSymlink == [file_type |-> "symlink", last_modified |-> 1, length |-> 1]
\* metadata an Updated event may carry: a change of length and time, and a
\* change of file type alone
Metas == {MetaFile, MetaTruncated, MetaSymlink}
\* metadata a Renamed event carries, and metadata add_dirty_file reads from disk
RenameMetas == {MetaFile}
DiskMetas == {MetaFile}

----------------------------------------------------------------------------
(* The ordered key-value tables *)

EmptyTable == <<>>

Put(table, key, value) ==
    [k \in (DOMAIN table) \cup {key} |-> IF k = key THEN value ELSE table[k]]

Delete(table, key) ==
    IF (DOMAIN table) \ {key} = {} THEN EmptyTable
    ELSE [k \in (DOMAIN table) \ {key} |-> table[k]]

StartsWith(key, prefix) ==
    /\ Len(prefix) <= Len(key)
    /\ SubSeq(key, 1, Len(prefix)) = prefix

MinLen(a, b) == IF Len(a) < Len(b) THEN Len(a) ELSE Len(b)

\* LMDB's default key order: bytewise, a proper prefix sorts first
LexLess(a, b) ==
    \E i \in 1..(MinLen(a, b) + 1) :
        /\ \A j \in 1..(i - 1) : a[j] = b[j]
        /\ \/ i > Len(a) /\ i <= Len(b)
           \/ i <= Len(a) /\ i <= Len(b) /\ a[i] < b[i]

RECURSIVE KeysInOrder(_)
KeysInOrder(keys) ==
    IF keys = {} THEN <<>>
    ELSE LET first == CHOOSE k \in keys : \A other \in keys \ {k} : LexLess(k, other)
         IN  <<first>> \o KeysInOrder(keys \ {first})

\* cursor positioned at the first key >= key, then forward
capnp_iter_from(table, key) ==
    SelectSeq(KeysInOrder(DOMAIN table), LAMBDA k : ~LexLess(k, key))

iter_start(table) == KeysInOrder(DOMAIN table)

----------------------------------------------------------------------------
(* Record builders *)

db_file_type(t) ==
    IF t = "dir" THEN "Directory"
    ELSE IF t = "symlink" THEN "Symlink"
    ELSE "File"

build_source_info(metadata) ==
    [last_modified |-> metadata.last_modified,
     length |-> metadata.length,
     type |-> db_file_type(metadata.file_type)]

build_dirty_file_info(state, source_info) ==
    [state |-> state, source_info |-> source_info]

\* The write transaction's view of the three tables
Txn ==
    [source_files |-> source_files,
     dirty_files |-> dirty_files,
     rename_file_events |-> rename_file_events]

Max(S) == CHOOSE n \in S : \A m \in S : m <= n

\* mutant: the last sequence number is read from the committed table, not
\* through the write transaction
rename_last_seq_committed(t) ==
    IF DOMAIN committed.rename_file_events = {} THEN 0
    ELSE Max(DOMAIN committed.rename_file_events)

\* rename_file_events is an INTEGER_KEY table: the cursor's last element is the
\* row with the numerically largest sequence number
rename_last_seq(t) ==
    IF DOMAIN t.rename_file_events = {} THEN 0
    ELSE Max(DOMAIN t.rename_file_events)

add_rename_event(t, src, dst) ==
    LET last_seq == rename_last_seq(t) + 1
    IN  [t EXCEPT !.rename_file_events = Put(@, last_seq, [src |-> src, dst |-> dst])]

\* mutant: the dirty row of a key that has no source_files row is dropped
update_deleted_dirty_entry_drops_untracked(t, key) ==
    IF key \in DOMAIN t.source_files
    THEN [t EXCEPT !.dirty_files =
            Put(@, key, build_dirty_file_info("Deleted", t.source_files[key]))]
    ELSE [t EXCEPT !.dirty_files = Delete(@, key)]

update_deleted_dirty_entry(t, key) ==
    IF key \in DOMAIN t.source_files
    THEN [t EXCEPT !.dirty_files =
            Put(@, key, build_dirty_file_info("Deleted", t.source_files[key]))]
    ELSE t

----------------------------------------------------------------------------
(* mod events *)

\* scan_ctx.files.insert(path, metadata) on the head of the stack, if any
scan_insert(stack, path, metadata) ==
    IF stack = <<>> THEN stack
    ELSE [stack EXCEPT ![Len(stack)].files = Put(@, path, metadata)]

\* scan_ctx.files.remove(path) on the head of the stack, if any
scan_remove(stack, path) ==
    IF stack = <<>> THEN stack
    ELSE [stack EXCEPT ![Len(stack)].files = Delete(@, path)]

\* mutant: every Updated counts as a change
update_changed_always(t, path, metadata) == TRUE

update_changed(t, path, metadata) ==
    IF path \in DOMAIN t.source_files
    THEN LET info == t.source_files[path]
         IN  ~ ( /\ info.length = metadata.length
                 /\ info.last_modified = metadata.last_modified
                 /\ info.type = db_file_type(metadata.file_type) )
    ELSE TRUE

\* mutant: the changed row is written to source_files alone
handle_update_no_dirty(t, stack, path, metadata) ==
    [txn |-> IF update_changed(t, path, metadata)
             THEN [t EXCEPT !.source_files = Put(@, path, build_source_info(metadata))]
             ELSE t,
     scan_stack |-> scan_insert(stack, path, metadata)]

handle_update(t, stack, path, metadata) ==
    LET changed == update_changed(t, path, metadata)
        value == build_source_info(metadata)
        dirty_value == build_dirty_file_info("Exists", value)
    IN  [txn |-> IF changed
                 THEN [t EXCEPT !.source_files = Put(@, path, value),
                                !.dirty_files = Put(@, path, dirty_value)]
                 ELSE t,
         scan_stack |-> scan_insert(stack, path, metadata)]

\* mutant: the row of src is left in source_files
handle_renamed_keep_src(t, stack, src, dst, metadata) ==
    LET value == build_source_info(metadata)
        t1 == [t EXCEPT !.source_files = Put(@, dst, value),
                        !.dirty_files = Put(Put(@, src, build_dirty_file_info("Deleted", value)),
                                            dst, build_dirty_file_info("Exists", value))]
    IN  [txn |-> add_rename_event(t1, src, dst),
         scan_stack |-> scan_remove(scan_insert(stack, dst, metadata), src)]

handle_renamed(t, stack, src, dst, metadata) ==
    LET value == build_source_info(metadata)
        dirty_value_new == build_dirty_file_info("Exists", value)
        dirty_value_old == build_dirty_file_info("Deleted", value)
        t1 == [t EXCEPT !.source_files = Put(Delete(@, src), dst, value),
                        !.dirty_files = Put(Put(@, src, dirty_value_old), dst, dirty_value_new)]
    IN  [txn |-> add_rename_event(t1, src, dst),
         scan_stack |-> scan_remove(scan_insert(stack, dst, metadata), src)]

\* mutant: the row is deleted before the dirty entry is derived from it
handle_removed_delete_first(t, stack, path) ==
    [txn |-> update_deleted_dirty_entry([t EXCEPT !.source_files = Delete(@, path)], path),
     scan_stack |-> scan_remove(stack, path)]

handle_removed(t, stack, path) ==
    LET t1 == update_deleted_dirty_entry(t, path)
    IN  [txn |-> [t1 EXCEPT !.source_files = Delete(@, path)],
         scan_stack |-> scan_remove(stack, path)]

handle_scan_start(t, stack, path) ==
    [txn |-> t,
     scan_stack |-> Append(stack, [path |-> path, files |-> EmptyTable])]

RECURSIVE TakeWhilePrefix(_, _)
TakeWhilePrefix(keys, prefix) ==
    IF keys = <<>> \/ ~StartsWith(Head(keys), prefix) THEN {}
    ELSE {Head(keys)} \cup TakeWhilePrefix(Tail(keys), prefix)

\* db_file_set: keys from the first one >= path, up to the first one that does
\* not start with the frame's path
scan_db_file_set(t, path, scan_ctx) ==
    TakeWhilePrefix(capnp_iter_from(t.source_files, path), scan_ctx.path)

\* mutant: the frame's observations are not subtracted
scan_to_remove_ignores_frame(t, path, scan_ctx) ==
    scan_db_file_set(t, path, scan_ctx)

scan_to_remove(t, path, scan_ctx) ==
    scan_db_file_set(t, path, scan_ctx) \ DOMAIN scan_ctx.files

\* for p in to_remove: update_deleted_dirty_entry, then delete
RECURSIVE remove_all(_, _)
remove_all(t, keys) ==
    IF keys = {} THEN t
    ELSE LET p == CHOOSE k \in keys : TRUE
             t1 == update_deleted_dirty_entry(t, p)
         IN  remove_all([t1 EXCEPT !.source_files = Delete(@, p)], keys \ {p})

scan_end_step1(t, path, scan_ctx) ==
    remove_all(t, scan_to_remove(t, path, scan_ctx))

\* to_delete: keys that start with none of the watched dirs, in cursor order
scan_to_delete(t, watched_dirs) ==
    SelectSeq(iter_start(t.source_files),
              LAMBDA key : ~ \E dir \in watched_dirs : StartsWith(key, dir))

\* for key in to_delete: delete, then update_deleted_dirty_entry
RECURSIVE delete_all(_, _)
delete_all(t, keys) ==
    IF keys = <<>> THEN t
    ELSE LET t1 == [t EXCEPT !.source_files = Delete(@, Head(keys))]
         IN  delete_all(update_deleted_dirty_entry(t1, Head(keys)), Tail(keys))

scan_end_step2(t, stack, watched_dirs) ==
    IF stack = <<>> THEN delete_all(t, scan_to_delete(t, watched_dirs))
    ELSE t

handle_scan_end(t, stack, path, watched_dirs) ==
    LET scan_ctx == stack[Len(stack)]
        popped == SubSeq(stack, 1, Len(stack) - 1)
        t1 == scan_end_step1(t, path, scan_ctx)
    IN  [txn |-> scan_end_step2(t1, popped, watched_dirs),
         scan_stack |-> popped]

handle_file_event(t, stack, e) ==
    CASE e.type = "Updated" -> handle_update(t, stack, e.path, e.metadata)
      [] e.type = "Renamed" -> handle_renamed(t, stack, e.src, e.dst, e.metadata)
      [] e.type = "Removed" -> handle_removed(t, stack, e.path)
      [] e.type = "ScanStart" -> handle_scan_start(t, stack, e.path)
      [] e.type = "ScanEnd" -> handle_scan_end(t, stack, e.path, e.watched_dirs)

----------------------------------------------------------------------------
(* impl FileTracker: operations called by the downstream consumer *)

NotFound == [file_type |-> "none", last_modified |-> 0, length |-> 0]

\* metadata is the result of tokio::fs::metadata(path): a FileMetadata, or
\* NotFound
add_dirty_file(t, path, metadata) ==
    IF metadata # NotFound
    THEN LET source_info == build_source_info(metadata)
             dirty_file_info == build_dirty_file_info("Exists", source_info)
         IN  [t EXCEPT !.source_files = Put(@, path, source_info),
                       !.dirty_files = Put(@, path, dirty_file_info)]
    ELSE update_deleted_dirty_entry(t, path)

delete_dirty_file_state(t, path) ==
    [t EXCEPT !.dirty_files = Delete(@, path)]

clear_rename_events(t) ==
    [t EXCEPT !.rename_file_events = EmptyTable]

----------------------------------------------------------------------------
(* History kept beside the program state *)

\* a path reported as existing / as gone is noted in every open scan
SeenAdd(seen, path) == [i \in DOMAIN seen |-> seen[i] \cup {path}]
SeenDel(seen, path) == [i \in DOMAIN seen |-> seen[i] \ {path}]

\* the scan of root ends: what it did not report under root is gone for the
\* enclosing scans too
SeenEnd(seen, root) ==
    [i \in 1..(Len(seen) - 1) |->
        {p \in seen[i] : StartsWith(p, root) => p \in seen[Len(seen)]}]

----------------------------------------------------------------------------
(* State machine *)

\* FileTracker::new on an empty database, and no run() or stop() call yet
tracker_new ==
    /\ source_files = EmptyTable
    /\ dirty_files = EmptyTable
    /\ rename_file_events = EmptyTable
    /\ committed = [source_files |-> EmptyTable,
                    dirty_files |-> EmptyTable,
                    rename_file_events |-> EmptyTable]
    /\ txn_open = FALSE
    /\ scan_stack = <<>>
    /\ is_running = FALSE
    /\ evt = [type |-> "New"]
    /\ assigned = <<>>
    /\ scan_seen = <<>>
    /\ nops = 0
    /\ run_pc = "idle"
    /\ stop_pc = "idle"
    /\ stopping = FALSE
    /\ listener_rx_locked = FALSE
    /\ listener_chan = <<>>
    /\ listeners = <<>>
    /\ closed = {}
    /\ update_debounce = "terminated"
    /\ txn_dirty = FALSE
    /\ unannounced = FALSE
    /\ early = {}
    /\ watcher_rx = "open"

\* no storage has been created, nothing is imported, no uuid is converted
examples_idle ==
    /\ storage = <<>>
    /\ storage_calls = <<>>
    /\ importer_state = <<>>
    /\ imports = <<>>
    /\ uuid_io = <<>>

\* no database is replayed, no packfile is open, no hash has been asked for
others_idle ==
    /\ stream = <<>>
    /\ replay = <<>>
    /\ packfile = <<>>
    /\ index_by_uuid = <<>>
    /\ assets_by_path = <<>>
    /\ tasks = {}
    /\ callbacks = <<>>
    /\ hash_calls = <<>>
    /\ examples_idle

Init == tracker_new /\ others_idle

\* run(): the compare-and-swap on is_running succeeds; scan_stack starts empty
Run ==
    /\ ~is_running
    /\ is_running' = TRUE
    /\ scan_stack' = <<>>
    /\ scan_seen' = <<>>
    /\ UNCHANGED <<source_files, dirty_files, rename_file_events, committed,
                   txn_open, evt, assigned, nops>>
    /\ UNCHANGED nvars
    /\ UNCHANGED ovars

\* the run loop leaves its select between two batches and run() returns
Stop ==
    /\ is_running
    /\ ~txn_open
    /\ is_running' = FALSE
    /\ scan_stack' = <<>>
    /\ scan_seen' = <<>>
    /\ UNCHANGED <<source_files, dirty_files, rename_file_events, committed,
                   txn_open, evt, assigned, nops>>
    /\ UNCHANGED nvars
    /\ UNCHANGED ovars

\* one pass of the batch loop: handle_file_event on the batch transaction,
\* which is opened by the first event of a batch
HandleEvent(e, locals) ==
    /\ is_running
    /\ e.type # "ScanStart" => nops < MaxOps
    /\ LET r == handle_file_event(Txn, scan_stack, e)
       IN  /\ source_files' = r.txn.source_files
           /\ dirty_files' = r.txn.dirty_files
           /\ rename_file_events' = r.txn.rename_file_events
           /\ scan_stack' = r.scan_stack
           /\ assigned' = IF e.type = "Renamed"
                          THEN Append(assigned, rename_last_seq(Txn) + 1)
                          ELSE assigned
    /\ txn_open' = TRUE
    /\ evt' = e @@ locals
    /\ nops' = IF e.type = "ScanStart" THEN nops ELSE nops + 1
    /\ UNCHANGED <<committed, is_running>>
    /\ UNCHANGED nvars
    /\ UNCHANGED ovars

Updated(path, metadata) ==
    /\ HandleEvent([type |-> "Updated", path |-> path, metadata |-> metadata],
                   [changed |-> update_changed(Txn, path, metadata),
                    had_row |-> path \in DOMAIN source_files])
    /\ scan_seen' = SeenAdd(scan_seen, path)

\* the watcher reports a rename between two distinct paths
Renamed(src, dst, metadata) ==
    /\ src # dst
    /\ HandleEvent([type |-> "Renamed", src |-> src, dst |-> dst, metadata |-> metadata],
                   [had_src |-> src \in DOMAIN source_files])
    /\ scan_seen' = SeenAdd(SeenDel(scan_seen, src), dst)

Removed(path) ==
    /\ HandleEvent([type |-> "Removed", path |-> path],
                   [had_row |-> path \in DOMAIN source_files])
    /\ scan_seen' = SeenDel(scan_seen, path)

\* a nested scan is the scan of another directory than the ones being scanned
ScanStart(path) ==
    /\ \A i \in DOMAIN scan_stack : scan_stack[i].path # path
    /\ HandleEvent([type |-> "ScanStart", path |-> path], [depth |-> Len(scan_stack)])
    /\ scan_seen' = Append(scan_seen, {})

\* the watcher brackets a scan: ScanEnd carries the path of the innermost
\* open ScanStart
ScanEnd(watched_dirs) ==
    /\ scan_stack # <<>>
    /\ LET scan_ctx == scan_stack[Len(scan_stack)]
           path == scan_ctx.path
           seen == scan_seen[Len(scan_seen)]
       IN  /\ HandleEvent([type |-> "ScanEnd", path |-> path, watched_dirs |-> watched_dirs],
                          [top_level |-> Len(scan_stack) = 1,
                           to_remove |-> scan_to_remove(Txn, path, scan_ctx),
                           seen |-> seen])
           /\ scan_seen' = SeenEnd(scan_seen, path)

\* if txn.dirty { txn.commit() }: the batch becomes visible
CommitBatch ==
    /\ txn_open
    /\ committed' = Txn
    /\ txn_open' = FALSE
    /\ UNCHANGED <<source_files, dirty_files, rename_file_events, scan_stack,
                   is_running, evt, assigned, scan_seen, nops>>
    /\ UNCHANGED nvars
    /\ UNCHANGED ovars

\* a downstream write transaction holding one operation, committed by its caller;
\* write transactions are serialized, so it runs between two batches
Downstream(t2, e) ==
    /\ nops < MaxOps
    /\ source_files' = t2.source_files
    /\ dirty_files' = t2.dirty_files
    /\ rename_file_events' = t2.rename_file_events
    /\ committed' = t2
    /\ evt' = e
    /\ nops' = nops + 1
    /\ UNCHANGED <<txn_open, scan_stack, is_running, assigned, scan_seen>>
    /\ UNCHANGED nvars
    /\ UNCHANGED ovars

AddDirtyFile(path, metadata) ==
    /\ ~txn_open
    /\ Downstream(add_dirty_file(Txn, path, metadata),
                  [type |-> "AddDirtyFile", path |-> path, metadata |-> metadata])

DeleteDirtyFileState(path) ==
    /\ ~txn_open
    /\ Downstream(delete_dirty_file_state(Txn, path),
                  [type |-> "DeleteDirtyFileState", path |-> path])

ClearRenameEvents ==
    /\ ~txn_open
    /\ Downstream(clear_rename_events(Txn), [type |-> "ClearRenameEvents"])

Next ==
    \/ Run
    \/ Stop
    \/ \E path \in Paths, metadata \in Metas : Updated(path, metadata)
    \/ \E src \in Paths, dst \in Paths, metadata \in RenameMetas : Renamed(src, dst, metadata)
    \/ \E path \in Paths : Removed(path)
    \/ \E path \in Roots : ScanStart(path)
    \/ \E watched_dirs \in WatchedDirSets : ScanEnd(watched_dirs)
    \/ CommitBatch
    \/ \E path \in Paths, metadata \in DiskMetas \cup {NotFound} : AddDirtyFile(path, metadata)
    \/ \E path \in Paths : DeleteDirtyFileState(path)
    \/ ClearRenameEvents

Spec == Init /\ [][Next]_vars

----------------------------------------------------------------------------
(* The run loop: run(), stop(), listeners and the debounce timer *)

Listeners == {"l1", "l2"}

LoopPaths == {PathAB}
LoopMetas == {MetaFile}
LoopRoots == Roots

\* the events the watcher thread sends in RunSpec
LoopEvents ==
    [type : {"Updated"}, path : LoopPaths, metadata : LoopMetas]
      \cup [type : {"Removed"}, path : LoopPaths]
      \cup [type : {"ScanStart"}, path : LoopRoots]
      \cup [type : {"ScanEnd"}, path : LoopRoots, watched_dirs : {{RootA}}]

\* ScanEnd falls through to Ok(None) like the other events
handle_result_scan_end_none(e) ==
    IF e.type = "FileError" THEN "Err" ELSE "None"

\* the Result of handle_file_event: Err, Ok(Some(Start)) or Ok(None)
handle_result(e) ==
    CASE e.type = "FileError" -> "Err"
      [] e.type = "ScanEnd" -> "Start"
      [] OTHER -> "None"

\* ListenersList::register
register(ls, new_listener) == Append(ls, new_listener)

\* the first failed send ends the emission: the listeners after it are kept
\* but not sent to
RECURSIVE send_event_stops_at_closed(_, _)
send_event_stops_at_closed(ls, cl) ==
    IF ls = <<>> THEN [listeners |-> <<>>, delivered |-> <<>>]
    ELSE IF Head(ls) \in cl
         THEN [listeners |-> Tail(ls), delivered |-> <<>>]
         ELSE LET rest == send_event_stops_at_closed(Tail(ls), cl)
              IN  [listeners |-> <<Head(ls)>> \o rest.listeners,
                   delivered |-> <<Head(ls)>> \o rest.delivered]

\* ListenersList::send_event: retain visits every listener in order; a send
\* to a closed channel fails and the listener is dropped from the list
RECURSIVE send_event(_, _)
send_event(ls, cl) ==
    IF ls = <<>> THEN [listeners |-> <<>>, delivered |-> <<>>]
    ELSE LET rest == send_event(Tail(ls), cl)
         IN  IF Head(ls) \in cl
             THEN rest
             ELSE [listeners |-> <<Head(ls)>> \o rest.listeners,
                   delivered |-> <<Head(ls)>> \o rest.delivered]

\* mutant: the flag tells whether the last handler wrote, not whether any did
dirty_after_last_only(dirty, t, t2) == t2 # t

\* RwTransaction::dirty after a handler ran: set by the puts and deletes that
\* changed a table
dirty_after(dirty, t, t2) == dirty \/ t2 # t

\* what RunSpec leaves alone: the histories Spec keeps
hvars == <<assigned, scan_seen, nops>>

\* is_running is stored, not compared and swapped: a second run() enters too
run_cas_unchecked ==
    /\ stop_pc = "idle"
    /\ is_running' = TRUE
    /\ stopping' = FALSE
    /\ listeners' = <<>>
    /\ scan_stack' = <<>>
    /\ run_pc' = "lock"
    /\ evt' = [type |-> "run"]
    /\ UNCHANGED <<source_files, dirty_files, rename_file_events, committed,
                   txn_open, stop_pc, listener_rx_locked,
                   listener_chan, closed, update_debounce, txn_dirty,
                   unannounced>>
    /\ early' = {listener_chan[i] : i \in DOMAIN listener_chan}
    /\ watcher_rx' = "open"
    /\ UNCHANGED hvars
    /\ UNCHANGED ovars

\* run(): the compare-and-swap finds is_running false; the watcher thread is
\* spawned, listeners and scan_stack start empty. The owner starts the tracker
\* again only after its stop() call has returned.
run_cas ==
    /\ stop_pc = "idle"
    /\ ~is_running
    /\ is_running' = TRUE
    /\ stopping' = FALSE
    /\ listeners' = <<>>
    /\ scan_stack' = <<>>
    /\ run_pc' = "lock"
    /\ evt' = [type |-> "run"]
    /\ UNCHANGED <<source_files, dirty_files, rename_file_events, committed,
                   txn_open, stop_pc, listener_rx_locked,
                   listener_chan, closed, update_debounce, txn_dirty,
                   unannounced>>
    /\ early' = {listener_chan[i] : i \in DOMAIN listener_chan}
    /\ watcher_rx' = "open"
    /\ UNCHANGED hvars
    /\ UNCHANGED ovars

\* run() called while is_running is true: the compare-and-swap returns true
\* and the call returns
run_already_running ==
    /\ is_running
    /\ evt' = [type |-> "run_already_running"]
    /\ UNCHANGED <<source_files, dirty_files, rename_file_events, committed,
                   txn_open, scan_stack, is_running>>
    /\ UNCHANGED nvars
    /\ UNCHANGED hvars
    /\ UNCHANGED ovars

\* self.listener_rx.lock().await; update_debounce = Fuse::terminated()
run_lock ==
    /\ run_pc = "lock"
    /\ ~listener_rx_locked
    /\ listener_rx_locked' = TRUE
    /\ update_debounce' = "terminated"
    /\ run_pc' = "select"
    /\ evt' = [type |-> "run_lock"]
    /\ UNCHANGED <<source_files, dirty_files, rename_file_events, committed,
                   txn_open, scan_stack, is_running, stop_pc, stopping, listener_chan, listeners, closed, txn_dirty,
                   unannounced>>
    /\ UNCHANGED early
    /\ UNCHANGED watcher_rx
    /\ UNCHANGED hvars
    /\ UNCHANGED ovars

\* select branch: new_listener = listener_tx.next() => listeners.register(new_listener)
select_new_listener ==
    /\ run_pc = "select"
    /\ listener_chan # <<>>
    /\ listeners' = register(listeners, Head(listener_chan))
    /\ listener_chan' = Tail(listener_chan)
    /\ evt' = [type |-> "new_listener", listener |-> Head(listener_chan)]
    /\ UNCHANGED <<source_files, dirty_files, rename_file_events, committed,
                   txn_open, scan_stack, is_running, run_pc, stop_pc,
                   stopping, listener_rx_locked, closed,
                   update_debounce, txn_dirty, unannounced>>
    /\ early' = early \ {Head(listener_chan)}
    /\ UNCHANGED watcher_rx
    /\ UNCHANGED hvars
    /\ UNCHANGED ovars

\* select branch: _ = update_debounce => listeners.send_event(Update)
select_update_debounce ==
    /\ run_pc = "select"
    /\ update_debounce = "armed"
    /\ LET r == send_event(listeners, closed)
       IN  /\ listeners' = r.listeners
           /\ evt' = [type |-> "update_debounce", event |-> "Update",
                      delivered |-> r.delivered]
    /\ update_debounce' = "terminated"
    /\ unannounced' = FALSE
    /\ UNCHANGED <<source_files, dirty_files, rename_file_events, committed,
                   txn_open, scan_stack, is_running, run_pc, stop_pc,
                   stopping, listener_rx_locked, listener_chan,
                   closed, txn_dirty>>
    /\ UNCHANGED early
    /\ UNCHANGED watcher_rx
    /\ UNCHANGED hvars
    /\ UNCHANGED ovars

\* what the watcher thread can send next: it scans the watched root and,
\* inside that scan, the directory below it; a ScanEnd closes the innermost
\* open scan
watcher_sends(stack, e) ==
    /\ e.type = "ScanStart" => IF stack = <<>> THEN e.path = RootA
                               ELSE /\ stack[Len(stack)].path = RootA
                                    /\ e.path = RootAD
    /\ e.type = "ScanEnd" => /\ stack # <<>>
                             /\ stack[Len(stack)].path = e.path

\* select branch watcher_rx.next() and the batch loop: one pass of
\* while let Some(file_event), on the batch transaction the first event opens;
\* Ok(Some(evt)) is sent to the listeners
batch_file_event(e) ==
    /\ run_pc \in {"select", "batch"}
    /\ watcher_rx = "open"
    /\ watcher_sends(scan_stack, e)
    /\ LET r == handle_file_event(Txn, scan_stack, e)
           s == send_event(listeners, closed)
       IN  /\ source_files' = r.txn.source_files
           /\ dirty_files' = r.txn.dirty_files
           /\ rename_file_events' = r.txn.rename_file_events
           /\ scan_stack' = r.scan_stack
           /\ txn_dirty' = dirty_after(txn_dirty, Txn, r.txn)
           /\ IF handle_result(e) = "Start"
              THEN /\ listeners' = s.listeners
                   /\ evt' = e @@ [event |-> "Start", delivered |-> s.delivered]
              ELSE /\ listeners' = listeners
                   /\ evt' = e
    /\ txn_open' = TRUE
    /\ run_pc' = "batch"
    /\ UNCHANGED <<committed, is_running, stop_pc, stopping,
                   listener_rx_locked, listener_chan, closed, update_debounce,
                   unannounced>>
    /\ UNCHANGED early
    /\ UNCHANGED watcher_rx
    /\ UNCHANGED hvars
    /\ UNCHANGED ovars

\* the batch is committed before the panic
batch_file_error_commits ==
    /\ run_pc \in {"select", "batch"}
    /\ watcher_rx = "open"
    /\ committed' = Txn
    /\ txn_open' = FALSE
    /\ txn_dirty' = FALSE
    /\ scan_stack' = <<>>
    /\ listeners' = <<>>
    /\ update_debounce' = "terminated"
    /\ listener_rx_locked' = FALSE
    /\ run_pc' = "panicked"
    /\ evt' = [type |-> "FileError", dirty |-> txn_dirty]
    /\ early' = {}
    /\ UNCHANGED <<source_files, dirty_files, rename_file_events, is_running,
                   stop_pc, stopping, listener_chan, closed, unannounced>>
    /\ UNCHANGED watcher_rx
    /\ UNCHANGED hvars
    /\ UNCHANGED ovars

\* handle_file_event returns Err (FileEvent::FileError, or a database error):
\* run() panics; the transaction is dropped uncommitted, run()'s locals and
\* the lock guard are dropped by the unwinding, is_running is not stored
batch_file_error ==
    /\ run_pc \in {"select", "batch"}
    /\ watcher_rx = "open"
    /\ handle_result([type |-> "FileError"]) = "Err"
    /\ source_files' = committed.source_files
    /\ dirty_files' = committed.dirty_files
    /\ rename_file_events' = committed.rename_file_events
    /\ txn_open' = FALSE
    /\ txn_dirty' = FALSE
    /\ scan_stack' = <<>>
    /\ listeners' = <<>>
    /\ update_debounce' = "terminated"
    /\ listener_rx_locked' = FALSE
    /\ run_pc' = "panicked"
    /\ evt' = [type |-> "FileError", dirty |-> txn_dirty]
    /\ UNCHANGED <<committed, is_running, stop_pc, stopping,
                   listener_chan, closed, unannounced>>
    /\ early' = {}
    /\ UNCHANGED watcher_rx
    /\ UNCHANGED hvars
    /\ UNCHANGED ovars

\* the timer is armed at the end of every batch, dirty or not
batch_commit_always_arms ==
    /\ run_pc = "batch"
    /\ IF txn_dirty
       THEN /\ committed' = Txn
            /\ unannounced' = TRUE
       ELSE UNCHANGED <<committed, unannounced>>
    /\ update_debounce' = "armed"
    /\ txn_open' = FALSE
    /\ txn_dirty' = FALSE
    /\ run_pc' = "select"
    /\ evt' = [type |-> "batch_commit", dirty |-> txn_dirty]
    /\ UNCHANGED <<source_files, dirty_files, rename_file_events, scan_stack,
                   is_running, stop_pc, stopping,
                   listener_rx_locked, listener_chan, listeners, closed>>
    /\ UNCHANGED early
    /\ UNCHANGED watcher_rx
    /\ UNCHANGED hvars
    /\ UNCHANGED ovars

\* the inner select finds no event ready: if txn.dirty { commit; arm the
\* debounce timer }, else the transaction is dropped
batch_commit ==
    /\ run_pc = "batch"
    /\ IF txn_dirty
       THEN /\ committed' = Txn
            /\ update_debounce' = "armed"
            /\ unannounced' = TRUE
       ELSE UNCHANGED <<committed, update_debounce, unannounced>>
    /\ txn_open' = FALSE
    /\ txn_dirty' = FALSE
    /\ run_pc' = "select"
    /\ evt' = [type |-> "batch_commit", dirty |-> txn_dirty]
    /\ UNCHANGED <<source_files, dirty_files, rename_file_events, scan_stack,
                   is_running, stop_pc, stopping,
                   listener_rx_locked, listener_chan, listeners, closed>>
    /\ UNCHANGED early
    /\ UNCHANGED watcher_rx
    /\ UNCHANGED hvars
    /\ UNCHANGED ovars

\* the inner select's watcher_rx.next() yields None (the watcher thread has
\* ended and its events are consumed): maybe_file_event = None ends the batch
\* like default does, and the receiver, having yielded None, is terminated
batch_watcher_exhausted ==
    /\ run_pc = "batch"
    /\ watcher_rx = "open"
    /\ IF txn_dirty
       THEN /\ committed' = Txn
            /\ update_debounce' = "armed"
            /\ unannounced' = TRUE
       ELSE UNCHANGED <<committed, update_debounce, unannounced>>
    /\ txn_open' = FALSE
    /\ txn_dirty' = FALSE
    /\ run_pc' = "select"
    /\ evt' = [type |-> "batch_commit", dirty |-> txn_dirty]
    /\ UNCHANGED <<source_files, dirty_files, rename_file_events, scan_stack,
                   is_running, stop_pc, stopping,
                   listener_rx_locked, listener_chan, listeners, closed>>
    /\ UNCHANGED early
    /\ watcher_rx' = "terminated"
    /\ UNCHANGED hvars
    /\ UNCHANGED ovars

\* select branch watcher_rx.next() yields None: break. select! skips the
\* branch of a receiver that is terminated.
select_watcher_exhausted ==
    /\ run_pc = "select"
    /\ watcher_rx = "open"
    /\ run_pc' = "exit"
    /\ evt' = [type |-> "watcher_exhausted"]
    /\ UNCHANGED <<source_files, dirty_files, rename_file_events, committed,
                   txn_open, scan_stack, is_running, stop_pc, stopping, listener_rx_locked, listener_chan, listeners,
                   closed, update_debounce, txn_dirty, unannounced>>
    /\ UNCHANGED early
    /\ watcher_rx' = "terminated"
    /\ UNCHANGED hvars
    /\ UNCHANGED ovars

\* the stopping branch does not break
select_stopping_ignored ==
    /\ run_pc = "select"
    /\ stopping
    /\ evt' = [type |-> "stopping"]
    /\ UNCHANGED <<source_files, dirty_files, rename_file_events, committed,
                   txn_open, scan_stack, is_running, run_pc, stop_pc,
                   stopping, listener_rx_locked, listener_chan,
                   listeners, closed, update_debounce, txn_dirty, unannounced>>
    /\ UNCHANGED early
    /\ UNCHANGED watcher_rx
    /\ UNCHANGED hvars
    /\ UNCHANGED ovars

\* select branch: _ = stopping => break
select_stopping ==
    /\ run_pc = "select"
    /\ stopping
    /\ run_pc' = "exit"
    /\ evt' = [type |-> "stopping"]
    /\ UNCHANGED <<source_files, dirty_files, rename_file_events, committed,
                   txn_open, scan_stack, is_running, stop_pc, stopping, listener_rx_locked, listener_chan, listeners,
                   closed, update_debounce, txn_dirty, unannounced>>
    /\ UNCHANGED early
    /\ UNCHANGED watcher_rx
    /\ UNCHANGED hvars
    /\ UNCHANGED ovars

\* run() goes from the loop straight to the final store
run_final_update_skipped ==
    /\ run_pc = "exit"
    /\ run_pc' = "store"
    /\ evt' = [type |-> "final_update", event |-> "None", delivered |-> <<>>]
    /\ UNCHANGED <<source_files, dirty_files, rename_file_events, committed,
                   txn_open, scan_stack, is_running, stop_pc, stopping, listener_rx_locked, listener_chan, listeners,
                   closed, update_debounce, txn_dirty, unannounced>>
    /\ UNCHANGED early
    /\ UNCHANGED watcher_rx
    /\ UNCHANGED hvars
    /\ UNCHANGED ovars

\* the final Update is sent whether the timer is armed or not
run_final_update_always ==
    /\ run_pc = "exit"
    /\ LET r == send_event(listeners, closed)
       IN  /\ listeners' = r.listeners
           /\ unannounced' = FALSE
           /\ evt' = [type |-> "final_update", event |-> "Update",
                      delivered |-> r.delivered]
    /\ run_pc' = "store"
    /\ UNCHANGED <<source_files, dirty_files, rename_file_events, committed,
                   txn_open, scan_stack, is_running, stop_pc, stopping, listener_rx_locked, listener_chan, closed,
                   update_debounce, txn_dirty>>
    /\ UNCHANGED early
    /\ UNCHANGED watcher_rx
    /\ UNCHANGED hvars
    /\ UNCHANGED ovars

\* after the loop: if !update_debounce.is_terminated() { send_event(Update) }
run_final_update ==
    /\ run_pc = "exit"
    /\ LET r == send_event(listeners, closed)
       IN  IF update_debounce = "armed"
           THEN /\ listeners' = r.listeners
                /\ unannounced' = FALSE
                /\ evt' = [type |-> "final_update", event |-> "Update",
                           delivered |-> r.delivered]
           ELSE /\ UNCHANGED <<listeners, unannounced>>
                /\ evt' = [type |-> "final_update", event |-> "None",
                           delivered |-> <<>>]
    /\ run_pc' = "store"
    /\ UNCHANGED <<source_files, dirty_files, rename_file_events, committed,
                   txn_open, scan_stack, is_running, stop_pc, stopping, listener_rx_locked, listener_chan, closed,
                   update_debounce, txn_dirty>>
    /\ UNCHANGED early
    /\ UNCHANGED watcher_rx
    /\ UNCHANGED hvars
    /\ UNCHANGED ovars

\* drop(stop_handle); is_running.store(false); run() returns and its locals,
\* the lock guard among them, are dropped
run_store ==
    /\ run_pc = "store"
    /\ is_running' = FALSE
    /\ listener_rx_locked' = FALSE
    /\ listeners' = <<>>
    /\ scan_stack' = <<>>
    /\ update_debounce' = "terminated"
    /\ stopping' = FALSE
    /\ run_pc' = "idle"
    /\ evt' = [type |-> "run_store"]
    /\ UNCHANGED <<source_files, dirty_files, rename_file_events, committed,
                   txn_open, stop_pc, listener_chan, closed,
                   txn_dirty, unannounced>>
    /\ early' = {}
    /\ watcher_rx' = "open"
    /\ UNCHANGED hvars
    /\ UNCHANGED ovars

\* FileTracker::register_listener: the sender of a new channel is pushed to
\* listener_tx. A name is free for a new channel once the tracker holds no
\* sender of that name.
register_listener(sender) ==
    /\ \A i \in DOMAIN listener_chan : listener_chan[i] # sender
    /\ \A i \in DOMAIN listeners : listeners[i] # sender
    /\ listener_chan' = Append(listener_chan, sender)
    /\ closed' = closed \ {sender}
    /\ UNCHANGED <<evt, source_files, dirty_files, rename_file_events, committed,
                   txn_open, scan_stack, is_running, run_pc, stop_pc,
                   stopping, listener_rx_locked, listeners,
                   update_debounce, txn_dirty, unannounced>>
    /\ UNCHANGED early
    /\ UNCHANGED watcher_rx
    /\ UNCHANGED hvars
    /\ UNCHANGED ovars

\* the owner of a registered listener drops its receiving end
drop_receiver(l) ==
    /\ l \notin closed
    /\ \/ \E i \in DOMAIN listener_chan : listener_chan[i] = l
       \/ \E i \in DOMAIN listeners : listeners[i] = l
    /\ closed' = closed \cup {l}
    /\ UNCHANGED <<evt, source_files, dirty_files, rename_file_events, committed,
                   txn_open, scan_stack, is_running, run_pc, stop_pc,
                   stopping, listener_rx_locked, listener_chan,
                   listeners, update_debounce, txn_dirty, unannounced>>
    /\ UNCHANGED early
    /\ UNCHANGED watcher_rx
    /\ UNCHANGED hvars
    /\ UNCHANGED ovars

\* stop(): is_running() is true; stopping_event.notify(usize::MAX) wakes the
\* listener run() created
stop_notify ==
    /\ stop_pc = "idle"
    /\ is_running
    /\ stopping' = (run_pc # "panicked")
    /\ stop_pc' = "lock"
    /\ UNCHANGED <<evt, source_files, dirty_files, rename_file_events, committed,
                   txn_open, scan_stack, is_running, run_pc,
                   listener_rx_locked, listener_chan, listeners, closed,
                   update_debounce, txn_dirty, unannounced>>
    /\ UNCHANGED early
    /\ UNCHANGED watcher_rx
    /\ UNCHANGED hvars
    /\ UNCHANGED ovars

\* stop(): listener_rx.lock().await returns once the lock is free, the guard
\* is dropped at once; assert_eq!(false, is_running)
stop_assert ==
    /\ stop_pc = "lock"
    /\ ~listener_rx_locked
    /\ stop_pc' = "idle"
    /\ evt' = [type |-> "stop_assert", is_running |-> is_running]
    /\ UNCHANGED <<source_files, dirty_files, rename_file_events, committed,
                   txn_open, scan_stack, is_running, run_pc, stopping,
                   listener_rx_locked, listener_chan, listeners, closed,
                   update_debounce, txn_dirty, unannounced>>
    /\ UNCHANGED early
    /\ UNCHANGED watcher_rx
    /\ UNCHANGED hvars
    /\ UNCHANGED ovars

RunNext ==
    \/ run_cas
    \/ run_already_running
    \/ run_lock
    \/ select_new_listener
    \/ select_update_debounce
    \/ \E e \in LoopEvents : batch_file_event(e)
    \/ batch_file_error
    \/ batch_commit
    \/ batch_watcher_exhausted
    \/ select_watcher_exhausted
    \/ select_stopping
    \/ run_final_update
    \/ run_store
    \/ \E sender \in Listeners : register_listener(sender)
    \/ \E l \in Listeners : drop_receiver(l)
    \/ stop_notify
    \/ stop_assert

RunSpec == Init /\ [][RunNext]_vars

\* the batch loop does not wait: it handles the next event or ends the batch
batch_progress ==
    /\ run_pc = "batch"
    /\ \/ \E e \in LoopEvents : batch_file_event(e)
       \/ batch_file_error
       \/ batch_commit
       \/ batch_watcher_exhausted

\* the executor polls a task that can make progress; select! picks among the
\* ready branches pseudo-randomly, so a branch that is ready again and again
\* is taken in the end. Whether the watcher has another event ready is left to
\* the watcher: nothing makes a batch end.
FairRunSpec ==
    /\ RunSpec
    /\ WF_vars(run_lock)
    /\ WF_vars(batch_progress)
    /\ SF_vars(select_stopping)
    /\ SF_vars(select_update_debounce)
    /\ WF_vars(run_final_update)
    /\ WF_vars(run_store)
    /\ WF_vars(stop_assert)

----------------------------------------------------------------------------
(* One event stream replayed on two databases *)

MaxStream == 3

Databases == {1, 2}

\* the events the watcher thread sends in ReplaySpec
ReplayEvents ==
    [type : {"Updated"}, path : {PathAB}, metadata : {MetaFile}]
      \cup [type : {"Renamed"}, src : {PathAB}, dst : {PathADY}, metadata : RenameMetas]
      \cup [type : {"Removed"}, path : {PathAB}]
      \cup [type : {"ScanStart"}, path : {RootA}]
      \cup [type : {"ScanEnd"}, path : {RootA}, watched_dirs : {{RootA}}]
      \cup [type : {"FileError"}]

EmptyTables ==
    [source_files |-> EmptyTable,
     dirty_files |-> EmptyTable,
     rename_file_events |-> EmptyTable]

\* a tracker started on an empty database: run() is at its select, having
\* handled none of the stream and committed no batch
replay_new ==
    [txn |-> EmptyTables, committed |-> EmptyTables, txn_open |-> FALSE,
     txn_dirty |-> FALSE, scan_stack |-> <<>>, pos |-> 0, run |-> "running",
     batches |-> 0]

\* the scans the stream has opened and not closed
open_scans(events) ==
    Len(SelectSeq(events, LAMBDA e : e.type = "ScanStart"))
      - Len(SelectSeq(events, LAMBDA e : e.type = "ScanEnd"))

\* the watcher thread sends the next event of the stream. A ScanEnd closes an
\* open scan, scans of the one root do not nest, and nothing that is sent
\* after a FileError is handled by anyone.
watcher_send(e) ==
    /\ Len(stream) < MaxStream
    /\ stream # <<>> => stream[Len(stream)].type # "FileError"
    /\ e.type = "ScanStart" => open_scans(stream) = 0
    /\ e.type = "ScanEnd" => open_scans(stream) > 0
    /\ stream' = Append(stream, e)
    /\ UNCHANGED <<replay, packfile, index_by_uuid, assets_by_path, tasks,
                   callbacks, hash_calls>>
    /\ UNCHANGED tvars
    /\ UNCHANGED xvars

\* one pass of the batch loop of database d on the next event of the stream:
\* handle_file_event returns Ok
replay_file_event(d) ==
    /\ replay[d].run = "running"
    /\ replay[d].pos < Len(stream)
    /\ stream[replay[d].pos + 1].type # "FileError"
    /\ LET db == replay[d]
           e == stream[db.pos + 1]
           r == handle_file_event(db.txn, db.scan_stack, e)
       IN  replay' = [replay EXCEPT ![d] =
                        [db EXCEPT !.txn = r.txn,
                                   !.scan_stack = r.scan_stack,
                                   !.txn_open = TRUE,
                                   !.txn_dirty = dirty_after(db.txn_dirty, db.txn, r.txn),
                                   !.pos = db.pos + 1]]
    /\ UNCHANGED <<stream, packfile, index_by_uuid, assets_by_path, tasks,
                   callbacks, hash_calls>>
    /\ UNCHANGED tvars
    /\ UNCHANGED xvars

\* the next event of database d is a FileError: handle_file_event returns Err
\* and run() panics; the batch transaction is dropped
replay_file_error(d) ==
    /\ replay[d].run = "running"
    /\ replay[d].pos < Len(stream)
    /\ handle_result(stream[replay[d].pos + 1]) = "Err"
    /\ LET db == replay[d]
       IN  replay' = [replay EXCEPT ![d] =
                        [db EXCEPT !.txn = db.committed,
                                   !.scan_stack = <<>>,
                                   !.txn_open = FALSE,
                                   !.txn_dirty = FALSE,
                                   !.pos = db.pos + 1,
                                   !.run = "panicked"]]
    /\ UNCHANGED <<stream, packfile, index_by_uuid, assets_by_path, tasks,
                   callbacks, hash_calls>>
    /\ UNCHANGED tvars
    /\ UNCHANGED xvars

\* the inner select of database d finds no event ready (the watcher has not
\* delivered the next one yet): if txn.dirty { commit }, else the transaction
\* is dropped
replay_commit(d) ==
    /\ replay[d].txn_open
    /\ LET db == replay[d]
       IN  replay' = [replay EXCEPT ![d] =
                        IF db.txn_dirty
                        THEN [db EXCEPT !.committed = db.txn,
                                        !.txn_open = FALSE,
                                        !.txn_dirty = FALSE,
                                        !.batches = db.batches + 1]
                        ELSE [db EXCEPT !.txn = db.committed,
                                        !.txn_open = FALSE]]
    /\ UNCHANGED <<stream, packfile, index_by_uuid, assets_by_path, tasks,
                   callbacks, hash_calls>>
    /\ UNCHANGED tvars
    /\ UNCHANGED xvars

ReplayInit ==
    /\ tracker_new
    /\ stream = <<>>
    /\ replay = [d \in Databases |-> replay_new]
    /\ packfile = <<>>
    /\ index_by_uuid = <<>>
    /\ assets_by_path = <<>>
    /\ tasks = {}
    /\ callbacks = <<>>
    /\ hash_calls = <<>>
    /\ examples_idle

ReplayNext ==
    \/ \E e \in ReplayEvents : watcher_send(e)
    \/ \E d \in Databases : replay_file_event(d)
    \/ \E d \in Databases : replay_file_error(d)
    \/ \E d \in Databases : replay_commit(d)

ReplaySpec == ReplayInit /\ [][ReplayNext]_vars

----------------------------------------------------------------------------
(* The packfile loader (loader/src/packfile_io.rs) *)

\* AssetUuid values are "A", "B", "C" and "D"; no packfile of the model has
\* an entry for "D"
PackUuids == {"A", "B", "C"}

\* paths as byte strings: 100 is 'd', 47 '/', 92 '\', 120 'x', 121 'y', 122 'z'
PathDX == <<100, 47, 120>>
PathDBackslashX == <<100, 92, 120>>
PathY == <<121>>
PathZ == <<122>>

\* AssetRef
RefUuid(uuid) == [type |-> "Uuid", uuid |-> uuid]
RefPath(path) == [type |-> "Path", path |-> path]

\* the load_deps an entry's artifact metadata may list
LoadDeps ==
    { <<>>,
      <<RefUuid("B"), RefUuid("B"), RefPath(PathY)>>,
      <<RefUuid("C"), RefUuid("D")>>,
      <<RefUuid("A")>> }

\* a pack_file entry: path, asset_metadata, artifact { metadata, data }; the
\* path is the source file the asset was imported from: d/x exports A and B,
\* y exports C
pack_entry(id, load_deps) ==
    [path |-> IF id = "C" THEN PathY ELSE PathDX,
     asset_metadata |-> [id |-> id],
     artifact |-> [metadata |-> [asset_id |-> id, load_deps |-> load_deps],
                   data |-> <<id, Len(load_deps)>>]]

Range(seq) == {seq[i] : i \in DOMAIN seq}

\* the published packfiles: one entry per asset, in any order
Packfiles ==
    UNION { { [i \in 1..Len(ids) |-> pack_entry(ids[i], deps[i])] :
                deps \in [1..Len(ids) -> LoadDeps] } :
            ids \in { q \in UNION {[1..n -> PackUuids] : n \in 0..Cardinality(PackUuids)} :
                        Cardinality(Range(q)) = Len(q) } }

\* mutant: a path seen again replaces the list of its entries
RECURSIVE reader_new_replaces_path(_, _, _)
reader_new_replaces_path(entries, idx, acc) ==
    IF idx > Len(entries) THEN acc
    ELSE LET entry == entries[idx]
         IN  reader_new_replaces_path(entries, idx + 1,
                 [index_by_uuid |-> Put(acc.index_by_uuid, entry.asset_metadata.id, idx),
                  assets_by_path |-> Put(acc.assets_by_path, entry.path, <<idx>>)])

\* PackfileReader::new: for (idx, entry) in entries: index_by_uuid.insert(id,
\* idx); assets_by_path.entry(path).and_modify(push idx).or_insert(vec![idx]).
\* Entries are numbered from 1 here, from 0 in the code.
RECURSIVE reader_new(_, _, _)
reader_new(entries, idx, acc) ==
    IF idx > Len(entries) THEN acc
    ELSE LET entry == entries[idx]
             id == entry.asset_metadata.id
             path == entry.path
             indices == IF path \in DOMAIN acc.assets_by_path
                        THEN Append(acc.assets_by_path[path], idx)
                        ELSE <<idx>>
         IN  reader_new(entries, idx + 1,
                        [index_by_uuid |-> Put(acc.index_by_uuid, id, idx),
                         assets_by_path |-> Put(acc.assets_by_path, path, indices)])

\* mutant: a Path-typed dependency is followed to the entries of that path
RECURSIVE push_deps_follows_paths(_, _, _)
push_deps_follows_paths(deps, to_visit, visited) ==
    IF deps = <<>> THEN [to_visit |-> to_visit, visited |-> visited]
    ELSE LET dep == Head(deps)
         IN  IF dep.type = "Uuid"
             THEN IF dep.uuid \notin visited
                  THEN push_deps_follows_paths(Tail(deps), Append(to_visit, dep.uuid),
                                               visited \cup {dep.uuid})
                  ELSE push_deps_follows_paths(Tail(deps), to_visit, visited)
             ELSE LET at_path == IF dep.path \in DOMAIN assets_by_path
                                 THEN assets_by_path[dep.path] ELSE <<>>
                      ids == [i \in DOMAIN at_path |-> packfile[at_path[i]].asset_metadata.id]
                      fresh == SelectSeq(ids, LAMBDA u : u \notin visited)
                  IN  push_deps_follows_paths(Tail(deps), to_visit \o fresh,
                                              visited \cup Range(fresh))

\* mutant: the dependencies are tested against visited as it was before the
\* loop over them, and inserted after it
push_deps_inserts_late(deps, to_visit, visited) ==
    LET fresh == SelectSeq(deps, LAMBDA dep : dep.type = "Uuid" /\ dep.uuid \notin visited)
    IN  [to_visit |-> to_visit \o [i \in DOMAIN fresh |-> fresh[i].uuid],
         visited |-> visited \cup {fresh[i].uuid : i \in DOMAIN fresh}]

\* for dep in &artifact_metadata.load_deps: a Uuid dependency that is not in
\* visited is inserted into visited and pushed on to_visit
RECURSIVE push_deps(_, _, _)
push_deps(deps, to_visit, visited) ==
    IF deps = <<>> THEN [to_visit |-> to_visit, visited |-> visited]
    ELSE LET dep == Head(deps)
         IN  IF dep.type = "Uuid" /\ dep.uuid \notin visited
             THEN push_deps(Tail(deps), Append(to_visit, dep.uuid),
                            visited \cup {dep.uuid})
             ELSE push_deps(Tail(deps), to_visit, visited)

\* while let Some(uuid) = to_visit.pop(): the uuid of an entry gives its
\* artifact metadata and its dependencies, any other uuid gives nothing
RECURSIVE metadata_visit(_, _, _)
metadata_visit(to_visit, visited, metadata) ==
    IF to_visit = <<>> THEN metadata
    ELSE LET uuid == to_visit[Len(to_visit)]
             popped == SubSeq(to_visit, 1, Len(to_visit) - 1)
         IN  IF uuid \in DOMAIN index_by_uuid
             THEN LET entry == packfile[index_by_uuid[uuid]]
                      artifact_metadata == entry.artifact.metadata
                      pushed == push_deps(artifact_metadata.load_deps, popped, visited)
                  IN  metadata_visit(pushed.to_visit, pushed.visited,
                                     Append(metadata, artifact_metadata))
             ELSE metadata_visit(popped, visited, metadata)

MaxPasses == 8

\* the same loop with its passes counted and the uuids it pushes recorded, in
\* order; it is left after MaxPasses passes, with ended FALSE
RECURSIVE visit_pushes(_, _, _, _)
visit_pushes(to_visit, visited, pushed, passes) ==
    IF to_visit = <<>> THEN [ended |-> TRUE, pushed |-> pushed, passes |-> passes]
    ELSE IF passes = MaxPasses
    THEN [ended |-> FALSE, pushed |-> pushed, passes |-> passes]
    ELSE LET uuid == to_visit[Len(to_visit)]
             popped == SubSeq(to_visit, 1, Len(to_visit) - 1)
         IN  IF uuid \in DOMAIN index_by_uuid
             THEN LET entry == packfile[index_by_uuid[uuid]]
                      now == push_deps(entry.artifact.metadata.load_deps, popped, visited)
                  IN  visit_pushes(now.to_visit, now.visited,
                                   pushed \o SubSeq(now.to_visit, Len(popped) + 1,
                                                    Len(now.to_visit)),
                                   passes + 1)
             ELSE visit_pushes(popped, visited, pushed, passes + 1)

\* capnp::Result
Ok(value) == [ok |-> TRUE, value |-> value]
Err(message) == [ok |-> FALSE, error |-> message]

\* mutant: a requested uuid that is not in the packfile fails the request
get_asset_metadata_with_dependencies_impl_unknown_fails(request) ==
    IF \E i \in DOMAIN request.requested_assets :
         request.requested_assets[i] \notin DOMAIN index_by_uuid
    THEN Err("UUID not found in packfile")
    ELSE Ok(metadata_visit(request.requested_assets,
                           Range(request.requested_assets), <<>>))

\* to_visit is the requested uuids as the request yields them, visited the
\* set of them
get_asset_metadata_with_dependencies_impl(request) ==
    Ok(metadata_visit(request.requested_assets,
                      Range(request.requested_assets), <<>>))

\* mutant: an asset_id that is not in the packfile gives no bytes
get_artifact_impl_missing_is_empty(request) ==
    IF request.asset_id \in DOMAIN index_by_uuid
    THEN Ok(packfile[index_by_uuid[request.asset_id]].artifact.data)
    ELSE Ok(<<>>)

get_artifact_impl(request) ==
    IF request.asset_id \in DOMAIN index_by_uuid
    THEN Ok(packfile[index_by_uuid[request.asset_id]].artifact.data)
    ELSE Err("UUID not found in packfile")

\* str::replace("\\", "/")
replace_backslash(path) ==
    [i \in DOMAIN path |-> IF path[i] = 92 THEN 47 ELSE path[i]]

\* assets_by_path is looked up with the identifier's path as the request
\* gives it; the path of the result has its separators replaced, the metadata
\* is parse_db_metadata of each entry of indices, in order
get_asset_candidates_impl(request) ==
    IF request.path \in DOMAIN assets_by_path
    THEN LET indices == assets_by_path[request.path]
             path == replace_backslash(request.path)
             metadata == [i \in DOMAIN indices |-> packfile[indices[i]].asset_metadata]
         IN  Ok(<<[path |-> path, metadata |-> metadata]>>)
    ELSE Err("Identifier not found in packfile")

MaxRequested == 2
MaxRequests == 2

SeqsUpTo(S, n) == UNION {[1..k -> S] : k \in 0..n}

\* MetadataRequest, ResolveRequest, DataRequest: what the impls read of them
MetadataRequests == [requested_assets : SeqsUpTo({"A", "B", "D"}, MaxRequested)]
ResolveRequests == [path : {PathDX, PathDBackslashX, PathZ}]
DataRequests == [asset_id : {"A", "B", "D"}]

\* runtime.enter: tokio::spawn of one task per request of the call. Tasks
\* share nothing but the read-only packfile, so one call is followed from its
\* spawns to its callbacks.
spawn(kind, requests) ==
    /\ tasks = {}
    /\ callbacks = <<>>
    /\ tasks' = {[id |-> i, kind |-> kind, request |-> requests[i]] : i \in DOMAIN requests}
    /\ callbacks' = [i \in DOMAIN requests |->
                        [kind |-> kind, request |-> requests[i], called |-> <<>>]]
    /\ UNCHANGED <<packfile, index_by_uuid, assets_by_path, stream, replay, hash_calls>>
    /\ UNCHANGED tvars
    /\ UNCHANGED xvars

get_asset_metadata_with_dependencies(request) == spawn("metadata", <<request>>)

get_asset_candidates(requests) == spawn("resolve", requests)

get_artifacts(requests) == spawn("data", requests)

\* mutant: an Err is dropped without a callback
deliver_drops_error(called, result) ==
    IF result.ok
    THEN Append(called, [callback |-> "complete", value |-> result.value])
    ELSE called

\* match result { Ok(data) => request.complete(data), Err(err) => request.error(err) }
deliver(called, result) ==
    IF result.ok
    THEN Append(called, [callback |-> "complete", value |-> result.value])
    ELSE Append(called, [callback |-> "error", error |-> result.error])

\* a worker of the runtime runs the spawned task t to its end
task(t, result) ==
    /\ t \in tasks
    /\ tasks' = tasks \ {t}
    /\ callbacks' = [callbacks EXCEPT ![t.id].called = deliver(@, result)]
    /\ UNCHANGED <<packfile, index_by_uuid, assets_by_path, stream, replay, hash_calls>>
    /\ UNCHANGED tvars
    /\ UNCHANGED xvars

metadata_task(t) ==
    /\ t.kind = "metadata"
    /\ task(t, get_asset_metadata_with_dependencies_impl(t.request))

resolve_task(t) ==
    /\ t.kind = "resolve"
    /\ task(t, get_asset_candidates_impl(t.request))

artifact_task(t) ==
    /\ t.kind = "data"
    /\ task(t, get_artifact_impl(t.request))

\* a packfile has been opened: PackfileReader::new has built the two indices
PackInit ==
    /\ tracker_new
    /\ stream = <<>>
    /\ replay = <<>>
    /\ hash_calls = <<>>
    /\ packfile \in Packfiles
    /\ LET reader == reader_new(packfile, 1, [index_by_uuid |-> EmptyTable,
                                              assets_by_path |-> EmptyTable])
       IN  /\ index_by_uuid = reader.index_by_uuid
           /\ assets_by_path = reader.assets_by_path
    /\ tasks = {}
    /\ callbacks = <<>>
    /\ examples_idle

run_task ==
    \E t \in tasks : metadata_task(t) \/ resolve_task(t) \/ artifact_task(t)

PackNext ==
    \/ \E request \in MetadataRequests : get_asset_metadata_with_dependencies(request)
    \/ \E requests \in SeqsUpTo(ResolveRequests, MaxRequests) : get_asset_candidates(requests)
    \/ \E requests \in SeqsUpTo(DataRequests, MaxRequests) : get_artifacts(requests)
    \/ \E t \in tasks : metadata_task(t)
    \/ \E t \in tasks : resolve_task(t)
    \/ \E t \in tasks : artifact_task(t)

PackSpec == PackInit /\ [][PackNext]_vars

\* the runtime's worker threads poll every spawned task, and a task has no
\* await: it runs to its callback. Whether a request gets its callback does
\* not depend on what the packfile holds beyond a lookup finding an entry or
\* not: FairPackSpec opens the packfiles of at most one entry.
FairPackInit == PackInit /\ Len(packfile) <= 1

FairPackSpec ==
    /\ FairPackInit
    /\ [][PackNext]_vars
    /\ WF_vars(run_task)

----------------------------------------------------------------------------
(* Artifact ids (core/src/utils.rs) *)

\* the longest dependency list handed to calc_import_artifact_hash
MaxDeps == 3

\* AssetUuid values as byte arrays, two bytes long here instead of sixteen
HashUuids == {<<0, 1>>, <<1, 0>>, <<1, 1>>}

\* import_hash: u64
ImportHashes == {0, 1}

\* the order of AssetUuid keys in sort_by_key: byte arrays compare
\* lexicographically
RECURSIVE uuid_less(_, _)
uuid_less(a, b) ==
    IF a = <<>> \/ b = <<>> THEN a = <<>> /\ b # <<>>
    ELSE IF Head(a) # Head(b) THEN Head(a) < Head(b)
    ELSE uuid_less(Tail(a), Tail(b))

\* mutant: the dependencies are hashed in the order they were given
sort_by_key_keeps_order(deps) == deps

\* Vec::sort_by_key: a stable sort, here by insertion of the last element
\* behind the elements that are not greater
RECURSIVE sort_by_key(_)
sort_by_key(deps) ==
    IF deps = <<>> THEN <<>>
    ELSE LET last == deps[Len(deps)]
             sorted == sort_by_key(SubSeq(deps, 1, Len(deps) - 1))
         IN  SelectSeq(sorted, LAMBDA dep : ~uuid_less(last, dep))
               \o <<last>>
               \o SelectSeq(sorted, LAMBDA dep : uuid_less(last, dep))

\* Vec::dedup_by_key: of consecutive elements with the same key the first stays
RECURSIVE dedup_by_key(_)
dedup_by_key(deps) ==
    IF Len(deps) <= 1 THEN deps
    ELSE LET rest == dedup_by_key(Tail(deps))
         IN  IF Head(deps) = Head(rest) THEN rest ELSE <<Head(deps)>> \o rest

\* for dep in &deps { dep.borrow().hash(&mut hasher) }: the bytes of each
\* dependency are written to the hasher in turn
RECURSIVE hash_deps(_, _)
hash_deps(deps, hasher) ==
    IF deps = <<>> THEN hasher
    ELSE hash_deps(Tail(deps), hasher \o Head(deps))

\* Hasher::finish. DefaultHasher::new() has fixed keys, so the result is a
\* function of the bytes written and of nothing else; SipHash is replaced by
\* a 16-bit fold that, like it, tells apart orders and repetitions.
RECURSIVE finish(_)
finish(hasher) ==
    IF hasher = <<>> THEN 0
    ELSE (finish(SubSeq(hasher, 1, Len(hasher) - 1)) * 31
            + hasher[Len(hasher)] + 1) % 65536

\* the hasher is the sequence of what has been written to it: import_hash,
\* the bytes of id, then the bytes of the sorted, deduplicated dependencies
calc_import_artifact_hash(id, import_hash, dep_list) ==
    LET hasher == <<import_hash>> \o id
        deps == dedup_by_key(sort_by_key(dep_list))
    IN  finish(hash_deps(deps, hasher))

\* the arguments of one call, its result not yet computed
HashCalls ==
    [id : HashUuids, import_hash : ImportHashes,
     dep_list : SeqsUpTo(HashUuids, MaxDeps), result : {<<>>}]

\* two calls are about to be made, with any arguments
HashInit ==
    /\ tracker_new
    /\ stream = <<>>
    /\ replay = <<>>
    /\ packfile = <<>>
    /\ index_by_uuid = <<>>
    /\ assets_by_path = <<>>
    /\ tasks = {}
    /\ callbacks = <<>>
    /\ hash_calls \in {<<first, second>> : first, second \in HashCalls}
    /\ examples_idle

\* call i is made and returns
calc_call(i) ==
    /\ hash_calls[i].result = <<>>
    /\ hash_calls' =
         [hash_calls EXCEPT ![i].result =
            <<calc_import_artifact_hash(hash_calls[i].id, hash_calls[i].import_hash,
                                        hash_calls[i].dep_list)>>]
    /\ UNCHANGED <<stream, replay, packfile, index_by_uuid, assets_by_path,
                   tasks, callbacks>>
    /\ UNCHANGED tvars
    /\ UNCHANGED xvars

HashNext == \E i \in DOMAIN hash_calls : calc_call(i)

HashSpec == HashInit /\ [][HashNext]_vars

----------------------------------------------------------------------------
(* The example asset storage (examples/handle_integration/src/storage.rs) *)

MaxCalls == 4

LoadHandles == {1, 2}
Versions == {1, 2}
AssetData == {"x", "y"}

\* handles with the indirect bit set, and what the loader's indirection table
\* resolves them to: 3 resolves to handle 1, 4 to nothing
IndirectHandles == {3, 4}
IndirectionTable == [h \in {3} |-> 1]

\* Storage::new
storage_new ==
    [assets |-> EmptyTable, uncommitted |-> EmptyTable,
     indirection_table |-> IndirectionTable]

\* the handle the three getters look up in assets: <<h>>, or <<>> when an
\* indirect handle does not resolve (the ? returns None)
resolved(s, handle) ==
    IF handle \in IndirectHandles
    THEN IF handle \in DOMAIN s.indirection_table
         THEN <<s.indirection_table[handle]>> ELSE <<>>
    ELSE <<handle>>

\* Storage::get: an Option (<<>> is None) of the asset
get(s, handle) ==
    IF resolved(s, handle) # <<>> /\ resolved(s, handle)[1] \in DOMAIN s.assets
    THEN <<s.assets[resolved(s, handle)[1]].asset>> ELSE <<>>

\* Storage::get_version
get_version(s, handle) ==
    IF resolved(s, handle) # <<>> /\ resolved(s, handle)[1] \in DOMAIN s.assets
    THEN <<s.assets[resolved(s, handle)[1]].version>> ELSE <<>>

\* Storage::get_asset_with_version
get_asset_with_version(s, handle) ==
    IF resolved(s, handle) # <<>> /\ resolved(s, handle)[1] \in DOMAIN s.assets
    THEN <<[asset |-> s.assets[resolved(s, handle)[1]].asset,
            version |-> s.assets[resolved(s, handle)[1]].version]>>
    ELSE <<>>

\* a call can be made: the bound is not reached and no call has panicked
storage_usable ==
    /\ Len(storage_calls) < MaxCalls
    /\ \A i \in DOMAIN storage_calls : ~storage_calls[i].panicked

\* the call is recorded; nothing else moves
call_made(fn, load_handle, version, data, panicked) ==
    /\ storage_calls' =
         Append(storage_calls,
                [fn |-> fn, load_handle |-> load_handle, version |-> version,
                 data |-> data, panicked |-> panicked])
    /\ UNCHANGED <<importer_state, imports, uuid_io>>
    /\ UNCHANGED lvars
    /\ UNCHANGED tvars

\* an update_asset that writes into assets at once
update_asset_visible(load_handle, data, version) ==
    /\ storage_usable
    /\ storage' = [storage EXCEPT
                     !.assets = Put(@, load_handle,
                                    [asset |-> data, version |-> version])]
    /\ call_made("update_asset", load_handle, version, data, FALSE)

\* update_asset with data that deserializes (to the asset of the same name)
update_asset(load_handle, data, version) ==
    /\ storage_usable
    /\ storage' = [storage EXCEPT
                     !.uncommitted = Put(@, load_handle,
                                         [asset |-> data, version |-> version])]
    /\ call_made("update_asset", load_handle, version, data, FALSE)

\* update_asset with data that does not deserialize: the expect panics
update_asset_panics(load_handle, version) ==
    /\ storage_usable
    /\ UNCHANGED storage
    /\ call_made("update_asset", load_handle, version, "garbage", TRUE)

\* commit_asset_version when uncommitted holds the handle; the version
\* argument is not read
commit_asset_version(load_handle, version) ==
    /\ storage_usable
    /\ load_handle \in DOMAIN storage.uncommitted
    /\ storage' = [storage EXCEPT
                     !.assets = Put(@, load_handle, storage.uncommitted[load_handle]),
                     !.uncommitted = Delete(@, load_handle)]
    /\ call_made("commit_asset_version", load_handle, version, "", FALSE)

\* commit_asset_version when uncommitted does not hold the handle: the
\* expect panics before anything is inserted
commit_asset_version_panics(load_handle, version) ==
    /\ storage_usable
    /\ load_handle \notin DOMAIN storage.uncommitted
    /\ UNCHANGED storage
    /\ call_made("commit_asset_version", load_handle, version, "", TRUE)

\* free: each of the two maps loses the handle if it holds that version of it
free(load_handle, version) ==
    /\ storage_usable
    /\ LET holds(m) == load_handle \in DOMAIN m /\ m[load_handle].version = version
           freed(m) == IF holds(m) THEN Delete(m, load_handle) ELSE m
       IN  storage' = [storage EXCEPT !.uncommitted = freed(@),
                                      !.assets = freed(@)]
    /\ call_made("free", load_handle, version, "", FALSE)

StorageInit ==
    /\ tracker_new
    /\ stream = <<>>
    /\ replay = <<>>
    /\ packfile = <<>>
    /\ index_by_uuid = <<>>
    /\ assets_by_path = <<>>
    /\ tasks = {}
    /\ callbacks = <<>>
    /\ hash_calls = <<>>
    /\ storage = storage_new
    /\ storage_calls = <<>>
    /\ importer_state = <<>>
    /\ imports = <<>>
    /\ uuid_io = <<>>

StorageNext ==
    \E load_handle \in LoadHandles, version \in Versions :
        \/ \E data \in AssetData : update_asset(load_handle, data, version)
        \/ update_asset_panics(load_handle, version)
        \/ commit_asset_version(load_handle, version)
        \/ commit_asset_version_panics(load_handle, version)
        \/ free(load_handle, version)

StorageSpec == StorageInit /\ [][StorageNext]_vars

----------------------------------------------------------------------------
(* The RON importer (importer/src/ron_importer.rs) *)

MaxImports == 3

\* the uuids Uuid::new_v4 may return, and the ids a stored state may hold
ImportUuids == {"u1", "u2", "u3"}

\* source texts: two that parse as a SerdeImportable, one that does not
RonSources == {"A(x: 1)", "A(x: 2)"}
ImportSources == RonSources \cup {"A(x: "}

\* ron::de::from_reader
from_reader(source) ==
    IF source \in RonSources THEN Ok(source) ELSE Err("ron::de::Error")

\* the import is recorded with the state it was given and the uuid it
\* generated, if any; nothing else moves
imported(source, new_v4, result) ==
    /\ imports' = Append(imports, [source |-> source, state |-> importer_state,
                                   new_v4 |-> new_v4, result |-> result])
    /\ UNCHANGED <<storage, storage_calls, uuid_io>>
    /\ UNCHANGED lvars
    /\ UNCHANGED tvars

\* mutant: an import that generates a uuid whatever the state holds
import_regenerates(source) ==
    /\ Len(imports) < MaxImports
    /\ \E new_v4 \in ImportUuids :
         /\ importer_state' = [id |-> <<new_v4>>]
         /\ imported(source, <<new_v4>>,
                     IF from_reader(source).ok
                     THEN Ok([assets |-> <<[id |-> new_v4,
                                            asset_data |-> from_reader(source).value]>>])
                     ELSE from_reader(source))

\* RonImporter::import on the threaded state: the id is generated when the
\* state has none, then the source is parsed, and the ? returns its error
\* with the state as it is by then
import(source) ==
    /\ Len(imports) < MaxImports
    /\ \E new_v4 \in IF importer_state.id = <<>>
                     THEN {<<u>> : u \in ImportUuids} ELSE {<<>>} :
         /\ importer_state' = IF importer_state.id = <<>>
                              THEN [id |-> new_v4] ELSE importer_state
         /\ imported(source, new_v4,
                     IF from_reader(source).ok
                     THEN Ok([assets |-> <<[id |-> importer_state'.id[1],
                                            asset_data |-> from_reader(source).value]>>])
                     ELSE from_reader(source))

\* the state is RonImporterState::default(), or one read back from a .meta
ImportInit ==
    /\ tracker_new
    /\ stream = <<>>
    /\ replay = <<>>
    /\ packfile = <<>>
    /\ index_by_uuid = <<>>
    /\ assets_by_path = <<>>
    /\ tasks = {}
    /\ callbacks = <<>>
    /\ hash_calls = <<>>
    /\ storage = <<>>
    /\ storage_calls = <<>>
    /\ importer_state \in {[id |-> <<>>]} \cup {[id |-> <<u>>] : u \in ImportUuids}
    /\ imports = <<>>
    /\ uuid_io = <<>>

ImportNext == \E source \in ImportSources : import(source)

ImportSpec == ImportInit /\ [][ImportNext]_vars

----------------------------------------------------------------------------
(* AssetUuid and AssetTypeId: text form, binary form, uuid_from_slice          *)
(* (core/src/utils.rs, core/tests/uuid.rs). A value of either type is its 16   *)
(* bytes; text is a sequence of character codes: 45 is '-', 48..57 are         *)
(* '0'..'9', 97..102 are 'a'..'f'.                                             *)

BYTES_LEN == 16

MaxSliceLen == 17

\* the two arrays of the tests
BYTES == [i \in 1..16 |-> i]
ASSET_TYPE_BYTES == <<3, 1, 4, 1, 5, 9, 2, 6, 5, 3, 5, 8, 9, 7, 9, 3>>

\* the 16-byte values converted: the two arrays of the tests, and every array
\* that holds one byte of 0x00, 0x9f, 0xb4, 0xed, 0xff at one position and
\* another of them at the fifteen others
Uuids ==
    {BYTES, ASSET_TYPE_BYTES}
      \cup {[i \in 1..16 |-> IF i = at THEN one ELSE rest] :
              at \in 1..16, one \in {0, 159, 180, 237, 255},
              rest \in {0, 159, 180, 237, 255}}

\* the canonical 8-4-4-4-12 form: two lower-case hex digits per byte, high
\* nibble first, and a hyphen after bytes 4, 6, 8 and 10
encode_text(bytes) ==
    LET hex(n) == IF n < 10 THEN 48 + n ELSE 87 + n
        hyphens(k) == Cardinality({h \in {9, 14, 19, 24} : h < k})
        digit(k) == k - hyphens(k)
    IN  [k \in 1..36 |->
           IF k \in {9, 14, 19, 24} THEN 45
           ELSE IF digit(k) % 2 = 1
                THEN hex(bytes[(digit(k) + 1) \div 2] \div 16)
                ELSE hex(bytes[digit(k) \div 2] % 16)]

\* the value a text in the canonical form stands for, as an Option; any
\* other text is an error (None here)
decode_text(text) ==
    LET value(c) == IF c \in 48..57 THEN c - 48
                    ELSE IF c \in 97..102 THEN c - 87 ELSE -1
        digits == SelectSeq([k \in DOMAIN text |-> IF k \in {9, 14, 19, 24} THEN -2
                                                    ELSE value(text[k])],
                            LAMBDA v : v # -2)
    IN  IF /\ Len(text) = 36
           /\ \A h \in {9, 14, 19, 24} : text[h] = 45
           /\ \A d \in DOMAIN digits : digits[d] >= 0
        THEN <<[i \in 1..16 |-> 16 * digits[2 * i - 1] + digits[2 * i]]>>
        ELSE <<>>

\* the binary form: the serializer is given the sixteen bytes one after the
\* other, and no length
RECURSIVE encode_binary(_)
encode_binary(bytes) ==
    IF bytes = <<>> THEN <<>> ELSE <<Head(bytes)>> \o encode_binary(Tail(bytes))

\* sixteen bytes are read from the front of the buffer; a shorter buffer is
\* an error (None here)
decode_binary(buffer) ==
    IF Len(buffer) < 16 THEN <<>> ELSE <<SubSeq(buffer, 1, 16)>>

\* mutant: a slice longer than BYTES_LEN gives its first bytes
uuid_from_slice_truncates(slice) ==
    IF Len(slice) < BYTES_LEN THEN <<>> ELSE <<SubSeq(slice, 1, BYTES_LEN)>>

\* uuid_from_slice: None unless the slice has BYTES_LEN bytes, else the bytes
\* copied into a [0; 16]
uuid_from_slice(slice) ==
    IF Len(slice) # BYTES_LEN THEN <<>>
    ELSE <<[i \in 1..16 |-> slice[i]]>>

\* type_from_slice: uuid_from_slice(slice).map(|uuid| AssetTypeId(uuid.0))
type_from_slice(slice) ==
    IF uuid_from_slice(slice) = <<>> THEN <<>> ELSE <<uuid_from_slice(slice)[1]>>

\* one of the conversions is applied and its results are kept
converted(field, results) ==
    /\ uuid_io[field] = <<>>
    /\ uuid_io' = [uuid_io EXCEPT ![field] = <<results>>]
    /\ UNCHANGED <<storage, storage_calls, importer_state, imports>>
    /\ UNCHANGED lvars
    /\ UNCHANGED tvars

\* the value is serialized in a textual context and read back
text_round_trip ==
    converted("text", [encoded |-> encode_text(uuid_io.bytes),
                       decoded |-> decode_text(encode_text(uuid_io.bytes))])

\* the value is serialized in a binary context and read back
binary_round_trip ==
    converted("binary", [encoded |-> encode_binary(uuid_io.bytes),
                         decoded |-> decode_binary(encode_binary(uuid_io.bytes))])

\* the slice is given to uuid_from_slice or type_from_slice
from_slice ==
    converted("from_slice",
              IF uuid_io.type = "AssetUuid" THEN uuid_from_slice(uuid_io.slice)
              ELSE type_from_slice(uuid_io.slice))

\* a value of one of the two types and a slice of 0 to MaxSliceLen bytes
UuidInit ==
    /\ tracker_new
    /\ stream = <<>>
    /\ replay = <<>>
    /\ packfile = <<>>
    /\ index_by_uuid = <<>>
    /\ assets_by_path = <<>>
    /\ tasks = {}
    /\ callbacks = <<>>
    /\ hash_calls = <<>>
    /\ storage = <<>>
    /\ storage_calls = <<>>
    /\ importer_state = <<>>
    /\ imports = <<>>
    /\ uuid_io \in {[type |-> type, bytes |-> bytes,
                     slice |-> SubSeq(bytes \o bytes, 1, len),
                     text |-> <<>>, binary |-> <<>>, from_slice |-> <<>>] :
                       type \in {"AssetUuid", "AssetTypeId"}, bytes \in Uuids,
                       len \in 0..MaxSliceLen}

UuidNext == text_round_trip \/ binary_round_trip \/ from_slice

UuidSpec == UuidInit /\ [][UuidNext]_vars

----------------------------------------------------------------------------
(* Properties *)

\* a SourceFileInfo row holds the metadata m
InfoHolds(row, m) ==
    /\ row.length = m.length
    /\ row.last_modified = m.last_modified
    /\ row.type = db_file_type(m.file_type)

\* this step handled an operation of the given kind (evt' describes it)
Handled(kind) == nops' = nops + 1 /\ evt'.type = kind

\* C1: handling Updated(p, m) when source_files has no row for p, or a row that
\* differs from m in length, last_modified or file type, leaves source_files[p]
\* holding m and dirty_files[p] = Exists with source info m.
C1_UpdatedWritesSourceAndDirty ==
    [][ ( /\ Handled("Updated")
          /\ \/ evt'.path \notin DOMAIN source_files
             \/ ~InfoHolds(source_files[evt'.path], evt'.metadata) )
        => /\ evt'.path \in DOMAIN source_files'
           /\ InfoHolds(source_files'[evt'.path], evt'.metadata)
           /\ evt'.path \in DOMAIN dirty_files'
           /\ dirty_files'[evt'.path].state = "Exists"
           /\ InfoHolds(dirty_files'[evt'.path].source_info, evt'.metadata) ]_vars

\* an Updated that found a differing row has been handled
C1_Witness ==
    /\ evt.type = "Updated"
    /\ evt.changed
    /\ evt.had_row
    /\ InfoHolds(source_files[evt.path], evt.metadata)
    /\ dirty_files[evt.path].state = "Exists"

\* C2: handling Updated(p, m) when source_files[p] already equals m in length,
\* last_modified and file type changes none of source_files, dirty_files
\* (a dirty row removed downstream stays absent) and rename_file_events.
C2_UpdatedUnchangedIsNoOp ==
    [][ ( /\ Handled("Updated")
          /\ evt'.path \in DOMAIN source_files
          /\ InfoHolds(source_files[evt'.path], evt'.metadata) )
        => UNCHANGED <<source_files, dirty_files, rename_file_events>> ]_vars

\* an unchanged Updated has been handled for a path whose dirty row is gone
C2_Witness ==
    /\ evt.type = "Updated"
    /\ ~evt.changed
    /\ evt.path \in DOMAIN source_files
    /\ evt.path \notin DOMAIN dirty_files

\* C3: handling Renamed(src, dst, m) with src # dst leaves, in the one
\* transaction, no source_files row for src, source_files[dst] = m,
\* dirty_files[src] Deleted, dirty_files[dst] Exists and exactly one new
\* rename_file_events row (src, dst), whether or not src was tracked.
C3_RenamedMovesRow ==
    [][ ( Handled("Renamed") /\ evt'.src # evt'.dst )
        => /\ evt'.src \notin DOMAIN source_files'
           /\ evt'.dst \in DOMAIN source_files'
           /\ InfoHolds(source_files'[evt'.dst], evt'.metadata)
           /\ evt'.src \in DOMAIN dirty_files'
           /\ dirty_files'[evt'.src].state = "Deleted"
           /\ evt'.dst \in DOMAIN dirty_files'
           /\ dirty_files'[evt'.dst].state = "Exists"
           /\ \E n \in DOMAIN rename_file_events' :
                /\ n \notin DOMAIN rename_file_events
                /\ DOMAIN rename_file_events' = (DOMAIN rename_file_events) \cup {n}
                /\ rename_file_events'[n] = [src |-> evt'.src, dst |-> evt'.dst]
                /\ \A k \in DOMAIN rename_file_events :
                     rename_file_events'[k] = rename_file_events[k]
           /\ txn_open'
           /\ committed' = committed ]_vars

\* a rename of an untracked source has been handled
C3_Witness ==
    /\ evt.type = "Renamed"
    /\ ~evt.had_src
    /\ evt.dst \in DOMAIN source_files
    /\ dirty_files[evt.src].state = "Deleted"
    /\ rename_file_events # EmptyTable

\* C4: handling Removed(p): if source_files had a row for p, dirty_files[p]
\* becomes Deleted with the source info the row held just before, and the row
\* is gone; if it had none, dirty_files is unchanged.
C4_RemovedMarksDeleted ==
    [][ Handled("Removed")
        => IF evt'.path \in DOMAIN source_files
           THEN /\ evt'.path \in DOMAIN dirty_files'
                /\ dirty_files'[evt'.path] =
                     [state |-> "Deleted", source_info |-> source_files[evt'.path]]
                /\ evt'.path \notin DOMAIN source_files'
           ELSE dirty_files' = dirty_files ]_vars

\* a tracked path has been removed
C4_Witness ==
    /\ evt.type = "Removed"
    /\ evt.had_row
    /\ evt.path \notin DOMAIN source_files
    /\ dirty_files[evt.path].state = "Deleted"

\* C5: in every committed state, a dirty_files row in state Exists has a
\* source_files row for the same path with equal last_modified, length and
\* file type.
C5_DirtyExistsMirrorsSource ==
    \A p \in DOMAIN committed.dirty_files :
        committed.dirty_files[p].state = "Exists"
        => /\ p \in DOMAIN committed.source_files
           /\ committed.source_files[p] = committed.dirty_files[p].source_info

\* a key of source_files starts with none of the watched dirs
Unwatched(key, watched_dirs) == \A dir \in watched_dirs : ~StartsWith(key, dir)

\* C6: at ScanEnd(root), every source_files key with prefix root that the
\* popped frame did not record is treated like Removed (row deleted,
\* dirty_files Deleted with the last known source info); the reconciliation
\* against the frame leaves a recorded key alone: it is not marked Deleted, and
\* it keeps its source_files row unless the top-level pass over the watched
\* dirs drops it.
C6_ScanEndRemovesUnobserved ==
    [][ Handled("ScanEnd")
        => LET scan_ctx == scan_stack[Len(scan_stack)]
               files == DOMAIN scan_ctx.files
           IN  \A k \in DOMAIN source_files :
                 /\ (StartsWith(k, scan_ctx.path) /\ k \notin files)
                    => /\ k \notin DOMAIN source_files'
                       /\ k \in DOMAIN dirty_files'
                       /\ dirty_files'[k] =
                            [state |-> "Deleted", source_info |-> source_files[k]]
                 /\ k \in files
                    => /\ k \notin evt'.to_remove
                       /\ (k \in DOMAIN dirty_files) = (k \in DOMAIN dirty_files')
                       /\ k \in DOMAIN dirty_files => dirty_files'[k] = dirty_files[k]
                       /\ ~(Len(scan_stack) = 1 /\ Unwatched(k, evt'.watched_dirs))
                          => /\ k \in DOMAIN source_files'
                             /\ source_files'[k] = source_files[k] ]_vars

\* a scan of /a has ended that recorded /a/d/y and not the tracked /ab
C6_Witness ==
    /\ evt.type = "ScanEnd"
    /\ evt.path = RootA
    /\ evt.to_remove = {PathAB}
    /\ PathAB \notin DOMAIN source_files
    /\ dirty_files[PathAB].state = "Deleted"
    /\ PathADY \in evt.seen
    /\ PathADY \in DOMAIN source_files

\* C7: at a top-level ScanEnd, every source_files key that starts with none of
\* the watched roots is treated as Removed: its row is deleted and dirty_files
\* gets a Deleted row carrying the last known source info.
C7_UnwatchedTreatedAsRemoved ==
    [][ ( Handled("ScanEnd") /\ Len(scan_stack) = 1 )
        => \A k \in DOMAIN source_files :
             Unwatched(k, evt'.watched_dirs)
             => /\ k \notin DOMAIN source_files'
                /\ k \in DOMAIN dirty_files'
                /\ dirty_files'[k] =
                     [state |-> "Deleted", source_info |-> source_files[k]] ]_vars

\* C8: after a ScanEnd that leaves the scan stack empty, the keys of
\* source_files are the paths reported as existing under the watched roots
\* during the scan, nested scans included: every reported path under a watched
\* root is a key, every key is under a watched root, and every key under the
\* scanned root was reported.
C8_TopLevelScanParity ==
    ( evt.type = "ScanEnd" /\ evt.top_level )
    => /\ \A p \in evt.seen :
            ~Unwatched(p, evt.watched_dirs) => p \in DOMAIN source_files
       /\ \A k \in DOMAIN source_files :
            /\ ~Unwatched(k, evt.watched_dirs)
            /\ StartsWith(k, evt.path) => k \in evt.seen

\* C9: the row appended by Renamed has sequence number (largest number in
\* rename_file_events as the transaction sees it) + 1, and 1 for an empty
\* table, so renames of one batch get consecutive numbers.
C9_RenameSeqIsMaxPlusOne ==
    [][ Handled("Renamed")
        => LET n == IF DOMAIN rename_file_events = {} THEN 1
                    ELSE Max(DOMAIN rename_file_events) + 1
           IN  /\ n \in DOMAIN rename_file_events'
               /\ rename_file_events'[n] = [src |-> evt'.src, dst |-> evt'.dst]
               /\ DOMAIN rename_file_events' = (DOMAIN rename_file_events) \cup {n}
               /\ assigned' = Append(assigned, n) ]_vars

\* two renames of one uncommitted batch hold the numbers 1 and 2
C9_Witness ==
    /\ evt.type = "Renamed"
    /\ txn_open
    /\ committed.rename_file_events = EmptyTable
    /\ DOMAIN rename_file_events = {1, 2}
    /\ assigned = <<1, 2>>

\* C10: over the life of a database the sequence numbers given to rename
\* events increase by one from each assignment to the next, across
\* clear_rename_events and restarts: none is given twice.
C10_SeqStrictlyIncreasing ==
    \A i \in 1..(Len(assigned) - 1) : assigned[i + 1] = assigned[i] + 1

\* C22: a dirty_files row leaves the table (as the transaction sees it, and as
\* committed) only in a step of delete_dirty_file_state for its path; a
\* rename_file_events row leaves the table or changes only in a step of
\* clear_rename_events; a rename row is added only by the handling of a
\* Renamed event. No watcher event handler removes a row of either table.
C22_RowsLeaveOnlyDownstream ==
    [][ /\ \A p \in DOMAIN dirty_files :
             p \notin DOMAIN dirty_files'
             => (Handled("DeleteDirtyFileState") /\ evt'.path = p)
        /\ \A p \in DOMAIN committed.dirty_files :
             p \notin DOMAIN committed'.dirty_files
             => (Handled("DeleteDirtyFileState") /\ evt'.path = p)
        /\ ( \E n \in DOMAIN rename_file_events :
               \/ n \notin DOMAIN rename_file_events'
               \/ rename_file_events'[n] # rename_file_events[n] )
           => Handled("ClearRenameEvents")
        /\ ( \E n \in DOMAIN committed.rename_file_events :
               n \notin DOMAIN committed'.rename_file_events )
           => Handled("ClearRenameEvents")
        /\ ( \E n \in DOMAIN rename_file_events' : n \notin DOMAIN rename_file_events )
           => Handled("Renamed") ]_vars

\* a Removed was handled for a path that has a dirty row and no source_files
\* row: the dirty row and the rename row of the earlier rename are still there
C22_Witness ==
    /\ evt.type = "Removed"
    /\ ~evt.had_row
    /\ evt.path \in DOMAIN dirty_files
    /\ dirty_files[evt.path].state = "Deleted"
    /\ rename_file_events # EmptyTable

\* C35: ScanEnd neither deletes from source_files nor marks Deleted a path
\* that was reported by an Updated or Renamed-to event since the matching
\* ScanStart and not removed since, also when the report came while a nested
\* scan was on top of the stack. (The pass of a top-level ScanEnd over the
\* keys outside the watched dirs is left aside here.)
C35_ScanEndKeepsReported ==
    [][ Handled("ScanEnd")
        => \A p \in evt'.seen :
             ( /\ p \in DOMAIN source_files
               /\ ~(Len(scan_stack) = 1 /\ Unwatched(p, evt'.watched_dirs)) )
             => /\ p \in DOMAIN source_files'
                /\ (p \in DOMAIN dirty_files') = (p \in DOMAIN dirty_files)
                /\ p \in DOMAIN dirty_files => dirty_files'[p] = dirty_files[p] ]_vars

\* key is the directory root itself or a path below it
Inside(key, root) == key = root \/ StartsWith(key, Append(root, 47))

\* C36: step 1 of ScanEnd(root) removes only keys that are root or lie inside
\* the directory root: a key of a sibling whose name starts with the same
\* characters is not among them.
C36_ScanEndRemovesInsideRoot ==
    [][ Handled("ScanEnd")
        => \A k \in evt'.to_remove : Inside(k, evt'.path) ]_vars

\* C39: in every committed state, a path whose dirty_files row is in state
\* Deleted has no source_files row.
C39_DirtyDeletedHasNoSource ==
    \A p \in DOMAIN committed.dirty_files :
        committed.dirty_files[p].state = "Deleted"
        => p \notin DOMAIN committed.source_files

----------------------------------------------------------------------------
(* Properties of the run loop (RunSpec, FairRunSpec) *)

\* the listeners of the list whose channel is open, in the list's order
Live(ls, cl) == SelectSeq(ls, LAMBDA l : l \notin cl)

\* this step of the batch loop handled a ScanEnd: it popped a scan frame
HandledScanEnd ==
    /\ run_pc' = "batch"
    /\ Len(scan_stack') < Len(scan_stack)

\* C11: a step that handles a ScanEnd, whatever the depth of the scan stack,
\* sends Start once to every listener of the list whose channel is open, and to
\* nobody else; it is a send of its own: the debounce timer and the pending
\* Update are left as they were.
C11_ScanEndSendsStart ==
    [][ HandledScanEnd
        => /\ evt'.type = "ScanEnd"
           /\ "event" \in DOMAIN evt'
           /\ evt'.event = "Start"
           /\ evt'.delivered = Live(listeners, closed)
           /\ \A l \in Listeners :
                (l \notin closed /\ \E i \in DOMAIN listeners : listeners[i] = l)
                => Cardinality({i \in DOMAIN evt'.delivered : evt'.delivered[i] = l}) = 1
           /\ update_debounce' = update_debounce
           /\ unannounced' = unannounced ]_vars

\* a nested ScanEnd has sent Start to two listeners while an Update was pending
C11_Witness ==
    /\ evt.type = "ScanEnd"
    /\ scan_stack # <<>>
    /\ evt.event = "Start"
    /\ Len(evt.delivered) = Cardinality(Listeners)
    /\ update_debounce = "armed"
    /\ run_pc = "batch"

\* this step sent Update to the listeners: the debounce branch of the select,
\* or the final Update after the loop
UpdateSent ==
    /\ evt'.type \in {"update_debounce", "final_update"}
    /\ evt'.event = "Update"
    /\ \/ update_debounce = "armed" /\ update_debounce' = "terminated"
       \/ run_pc = "exit" /\ run_pc' = "store"

\* C12: when Update is sent, a batch that wrote to the tables has been
\* committed since the previous Update (or since run() started), no batch
\* transaction is open and the committed tables hold everything written; the
\* send uses that commit up, so Updates never outnumber such commits.
C12_UpdateFollowsCommit ==
    [][ UpdateSent
        => /\ unannounced
           /\ ~txn_open
           /\ committed = Txn
           /\ ~unannounced' ]_vars

\* the debounce timer has fired and Update went to a listener after a commit
\* that left a row in source_files
C12_Witness ==
    /\ evt.type = "update_debounce"
    /\ evt.delivered # <<>>
    /\ ~unannounced
    /\ committed.source_files # EmptyTable
    /\ run_pc = "select"

\* the batch loop keeps coming back to the select (or run() has returned):
\* no batch goes on forever and no batch panics
BatchesEnd == []<>(run_pc \notin {"batch", "panicked"})

C14_FinalUpdateIffArmed ==
    [][ /\ run_pc' \in {"exit", "store"} => is_running'
        /\ (run_pc = "exit" /\ run_pc' # "exit")
           => /\ run_pc' = "store"
              /\ evt'.type = "final_update"
              /\ IF update_debounce = "armed"
                 THEN /\ evt'.event = "Update"
                      /\ evt'.delivered = Live(listeners, closed)
                 ELSE /\ evt'.event = "None"
                      /\ evt'.delivered = <<>>
                      /\ listeners' = listeners
        /\ (run_pc = "store" /\ run_pc' # "store")
           => /\ run_pc' = "idle"
              /\ evt'.type = "run_store"
              /\ ~is_running' ]_vars

\* the watcher was exhausted with the timer armed: the final Update has gone
\* to a listener and is_running is still true
C14_Witness ==
    /\ evt.type = "final_update"
    /\ evt.event = "Update"
    /\ evt.delivered # <<>>
    /\ stop_pc = "idle"
    /\ ~stopping
    /\ run_pc = "store"
    /\ is_running

\* C15: the assertion at the end of stop() never fails: a stop() call that saw
\* is_running = true finds it false once it has taken the listener lock.
C15_StopAssertHolds ==
    evt.type = "stop_assert" => ~evt.is_running

\* C16: run_pc tells where the one invocation that won the compare-and-swap
\* stands. is_running is true exactly while there is such an invocation; it
\* becomes true only by a compare-and-swap made when there is none, and false
\* only by that invocation's final store; no invocation enters while another
\* is there; and a run() call that finds is_running true changes nothing: no
\* transaction, no lock, no scan stack, no listener, no is_running.
C16_SingleRunner ==
    [][ /\ is_running' <=> run_pc' # "idle"
        /\ (~is_running /\ is_running') => (run_pc = "idle" /\ run_pc' = "lock")
        /\ (is_running /\ ~is_running') => (run_pc = "store" /\ run_pc' = "idle")
        /\ (run_pc # "lock" /\ run_pc' = "lock") => (run_pc = "idle" /\ ~is_running)
        /\ (evt' # evt /\ evt'.type = "run_already_running")
           => /\ is_running
              /\ UNCHANGED <<source_files, dirty_files, rename_file_events,
                             committed, txn_open, scan_stack, is_running,
                             assigned, scan_seen, nops>>
              /\ UNCHANGED nvars ]_vars

\* a second run() call has returned at once while the first was in a batch
C16_Witness ==
    /\ evt.type = "run_already_running"
    /\ run_pc = "batch"
    /\ txn_open
    /\ is_running
    /\ listener_rx_locked

C18_EarlyListenerGetsStart ==
    [][ HandledScanEnd => early = {} ]_vars

\* C19: a step that emits Start or Update drops from the listener list the
\* listeners whose channel is closed and keeps the others in order; every kept
\* listener is sent the event, no closed one is; and the step ends normally,
\* in the loop or on its way out, never in a panic.
C19_ClosedListenersPruned ==
    [][ (HandledScanEnd \/ UpdateSent)
        => /\ listeners' = Live(listeners, closed)
           /\ evt'.delivered = Live(listeners, closed)
           /\ \A i \in DOMAIN listeners' : listeners'[i] \notin closed
           /\ \A l \in closed : \A i \in DOMAIN evt'.delivered : evt'.delivered[i] # l
           /\ run_pc' \in {"select", "batch", "store"} ]_vars

\* an emission has dropped a closed listener that stood before an open one,
\* and the open one was sent the event
C19_Witness ==
    /\ "delivered" \in DOMAIN evt
    /\ evt.event \in {"Start", "Update"}
    /\ evt.delivered = <<"l2">>
    /\ listeners = <<"l2">>
    /\ "l1" \in closed
    /\ listener_chan = <<>>
    /\ early = {}
    /\ run_pc \in {"select", "batch"}

\* C20: the step in which handle_file_event returns Err ends run() in a panic
\* and commits nothing: the committed tables are as they were before the
\* batch, the writes of the batch's earlier events are gone with the dropped
\* transaction, and nothing is committed afterwards. The committed tables
\* change only where a batch ends without an error.
C20_ErrorAbortsBatch ==
    [][ /\ (run_pc # "panicked" /\ run_pc' = "panicked")
           => /\ evt'.type = "FileError"
              /\ committed' = committed
              /\ Txn' = committed
              /\ ~txn_open'
        /\ run_pc = "panicked"
           => (run_pc' = "panicked" /\ committed' = committed /\ ~txn_open')
        /\ committed' # committed
           => (run_pc = "batch" /\ run_pc' = "select" /\ committed' = Txn) ]_vars

\* run() has panicked on an error that came after events of the same batch
\* had written to the tables; an earlier batch is committed
C20_Witness ==
    /\ run_pc = "panicked"
    /\ evt.type = "FileError"
    /\ evt.dirty
    /\ committed.source_files # EmptyTable
    /\ Txn = committed

\* C32: once the watcher's channel has ended (the receiver has yielded None,
\* to the outer select or to the inner one), run() leaves its loop and stores
\* is_running = false, with or without a stop() call.
C32_ExhaustedWatcherEndsRun ==
    (watcher_rx = "terminated") ~> ~is_running

\* C37: when a Start has just been delivered to a listener, the transaction
\* that holds the ScanEnd's reconciliation is committed: what a read
\* transaction sees (committed) is what the batch has written.
C37_StartAfterCommit ==
    ( /\ evt.type = "ScanEnd"
      /\ "delivered" \in DOMAIN evt
      /\ evt.delivered # <<>> )
    => committed = Txn

----------------------------------------------------------------------------
(* Properties of the replayed databases (ReplaySpec) *)

\* database d has handled the whole stream and holds no open transaction:
\* its last batch is committed, or its run() has panicked
Finished(d) ==
    /\ replay[d].pos = Len(stream)
    /\ ~replay[d].txn_open

NoFileError(events) == \A i \in DOMAIN events : events[i].type # "FileError"

----------------------------------------------------------------------------
(* Properties of the packfile loader (PackSpec, FairPackSpec) *)

\* the uuids that have an entry in the packfile
PackUuidSet == {packfile[i].asset_metadata.id : i \in DOMAIN packfile}

\* the entry of uuid u
EntryOf(u) == packfile[CHOOSE i \in DOMAIN packfile : packfile[i].asset_metadata.id = u]

\* the uuids named by the Uuid-typed load_deps of the entry of u
UuidDeps(u) ==
    LET deps == EntryOf(u).artifact.metadata.load_deps
    IN  {deps[k].uuid : k \in {j \in DOMAIN deps : deps[j].type = "Uuid"}}

\* S, a set of uuids of the packfile, with everything in the packfile that
\* chains of Uuid-typed load_deps reach from it
RECURSIVE Reachable(_)
Reachable(S) ==
    LET next == S \cup {v \in PackUuidSet : \E u \in S : v \in UuidDeps(u)}
    IN  IF next = S THEN S ELSE Reachable(next)

\* request i of the call is of the given kind and its task has run
Done(i, kind) == callbacks[i].kind = kind /\ callbacks[i].called # <<>>

AssetIds(metadata) == {metadata[k].asset_id : k \in DOMAIN metadata}

\* C23: a metadata request for the uuids R completes with the artifact
\* metadata of exactly the uuids of the packfile that are in R or reachable
\* from R through Uuid-typed load_deps of entries of the packfile; a
\* Path-typed load_dep adds nothing.
C23_MetadataIsUuidClosure ==
    \A i \in DOMAIN callbacks :
        Done(i, "metadata")
        => LET c == callbacks[i].called[1]
               R == Range(callbacks[i].request.requested_assets)
           IN  /\ c.callback = "complete"
               /\ AssetIds(c.value) = Reachable(R \cap PackUuidSet)

\* a request for A has completed with A and its Uuid dependency B, and
\* without C, which is in the packfile and which A names by path only
C23_Witness ==
    /\ DOMAIN callbacks = {1}
    /\ Done(1, "metadata")
    /\ callbacks[1].request.requested_assets = <<"A">>
    /\ PackUuidSet = PackUuids
    /\ EntryOf("A").artifact.metadata.load_deps
         = <<RefUuid("B"), RefUuid("B"), RefPath(PathY)>>
    /\ EntryOf("C").path = PathY
    /\ AssetIds(callbacks[1].called[1].value) = {"A", "B"}

\* C24: the result of a metadata request holds at most one metadata per
\* asset uuid, also when the request lists a uuid more than once.
C24_MetadataOncePerUuid ==
    \A i \in DOMAIN callbacks :
        Done(i, "metadata")
        => LET value == callbacks[i].called[1].value
           IN  \A j, k \in DOMAIN value :
                 value[j].asset_id = value[k].asset_id => j = k

\* C25: a metadata request always completes; a uuid without an entry,
\* requested or depended on, contributes nothing to the result, and a request
\* that names no uuid of the packfile completes with the empty list.
C25_UnknownUuidsOmitted ==
    \A i \in DOMAIN callbacks :
        Done(i, "metadata")
        => LET c == callbacks[i].called[1]
               R == Range(callbacks[i].request.requested_assets)
           IN  /\ c.callback = "complete"
               /\ AssetIds(c.value) \subseteq PackUuidSet
               /\ R \cap PackUuidSet = {} => c.value = <<>>

\* a request for B and the unknown D has completed with the metadata of B
\* alone, whose load_deps name C and D, neither of them in the packfile
C25_Witness ==
    /\ DOMAIN callbacks = {1}
    /\ Done(1, "metadata")
    /\ callbacks[1].request.requested_assets = <<"B", "D">>
    /\ PackUuidSet = {"A", "B"}
    /\ callbacks[1].called[1].callback = "complete"
    /\ Len(callbacks[1].called[1].value) = 1
    /\ callbacks[1].called[1].value[1] =
         [asset_id |-> "B", load_deps |-> <<RefUuid("C"), RefUuid("D")>>]

\* the paths under which the packfile has entries
PackPaths == {packfile[i].path : i \in DOMAIN packfile}

\* the asset metadata of the entries of path p, in entry order
EntriesAt(p) ==
    LET indices == SelectSeq([i \in DOMAIN packfile |-> i],
                             LAMBDA i : packfile[i].path = p)
    IN  [k \in DOMAIN indices |-> packfile[indices[k]].asset_metadata]

\* C26: a resolve request finds the entries stored under its path written
\* with '/': a request written with backslashes completes with them.
C26_LookupNormalizesSeparators ==
    \A i \in DOMAIN callbacks :
        ( Done(i, "resolve") /\ replace_backslash(callbacks[i].request.path) \in PackPaths )
        => LET c == callbacks[i].called[1]
           IN  /\ c.callback = "complete"
               /\ c.value[1].metadata = EntriesAt(replace_backslash(callbacks[i].request.path))

\* C27: a resolve request for a path under which the packfile has entries
\* completes, once, with exactly one pair, whose list is the asset metadata of
\* every entry of that path, once each, in entry order; for any other path
\* the error callback is invoked, once, and complete is not.
C27_CandidatesOfPath ==
    \A i \in DOMAIN callbacks :
        Done(i, "resolve")
        => LET called == callbacks[i].called
               path == callbacks[i].request.path
           IN  /\ Len(called) = 1
               /\ IF path \in PackPaths
                  THEN /\ path \in DOMAIN assets_by_path
                       /\ called[1].callback = "complete"
                       /\ Len(called[1].value) = 1
                       /\ called[1].value[1].metadata = EntriesAt(path)
                  ELSE /\ path \notin DOMAIN assets_by_path
                       /\ called[1].callback = "error"

\* a request for d/x has completed with the metadata of B and A, in that
\* order, from a packfile whose entries are B, C and A
C27_Witness ==
    /\ DOMAIN callbacks = {1}
    /\ Done(1, "resolve")
    /\ callbacks[1].request.path = PathDX
    /\ [i \in DOMAIN packfile |-> packfile[i].asset_metadata.id] = <<"B", "C", "A">>
    /\ callbacks[1].called[1].callback = "complete"
    /\ callbacks[1].called[1].value =
         <<[path |-> PathDX, metadata |-> <<[id |-> "B"], [id |-> "A"]>>]>>

\* C28: a data request whose asset_id has an entry completes with the blob
\* bytes of that entry; for an asset_id without an entry the error callback is
\* invoked, not complete with an empty result.
C28_ArtifactBytesOrError ==
    \A i \in DOMAIN callbacks :
        Done(i, "data")
        => LET c == callbacks[i].called[1]
               asset_id == callbacks[i].request.asset_id
           IN  IF asset_id \in PackUuidSet
               THEN /\ c.callback = "complete"
                    /\ c.value = EntryOf(asset_id).artifact.data
               ELSE c.callback = "error"

\* one call asked for B and for the unknown D: B's bytes have come, and D's
\* error
C28_Witness ==
    /\ DOMAIN callbacks = {1, 2}
    /\ Done(1, "data")
    /\ Done(2, "data")
    /\ callbacks[1].request.asset_id = "B"
    /\ callbacks[2].request.asset_id = "D"
    /\ callbacks[1].called[1] = [callback |-> "complete", value |-> <<"B", 2>>]
    /\ callbacks[2].called[1].callback = "error"

\* no request has had more than one callback, and a request has had none
\* exactly while its task is waiting to run
OneCallbackAtMost ==
    \A i \in DOMAIN callbacks :
        /\ Len(callbacks[i].called) <= 1
        /\ (callbacks[i].called = <<>>) <=> (\E t \in tasks : t.id = i)

\* C29: every request of a call gets exactly one callback, complete or error:
\* never a second one, and in the end one, whatever becomes of the other
\* requests of the call.
C29_OneCallbackPerRequest ==
    /\ []OneCallbackAtMost
    /\ \A i \in 1..MaxRequests :
         (i \in DOMAIN callbacks)
           ~> (i \in DOMAIN callbacks /\ Len(callbacks[i].called) = 1)

\* of the two resolve requests of one call the first has had its error and
\* the second its result
C29_Witness ==
    /\ DOMAIN callbacks = {1, 2}
    /\ tasks = {}
    /\ Done(1, "resolve")
    /\ Done(2, "resolve")
    /\ Len(callbacks[1].called) = 1
    /\ callbacks[1].called[1].callback = "error"
    /\ Len(callbacks[2].called) = 1
    /\ callbacks[2].called[1].callback = "complete"

\* C38: get_asset_metadata_with_dependencies ends for every packfile and
\* request, load_deps that form a cycle or name their own asset included: the
\* loop is left with an empty work list, no uuid is pushed on it twice, no
\* requested uuid is pushed at all, and it makes one pass per requested uuid
\* and one per push.
C38_TraversalEnds ==
    \A i \in DOMAIN callbacks :
        callbacks[i].kind = "metadata"
        => LET requested == callbacks[i].request.requested_assets
               loop == visit_pushes(requested, Range(requested), <<>>, 0)
           IN  /\ loop.ended
               /\ \A j, k \in DOMAIN loop.pushed :
                     loop.pushed[j] = loop.pushed[k] => j = k
               /\ Range(loop.pushed) \cap Range(requested) = {}
               /\ loop.passes = Len(requested) + Len(loop.pushed)
               /\ callbacks[i].called # <<>>
                  => Len(callbacks[i].called[1].value) <= loop.passes

\* A depends on B (twice) and B on A; the request for A has completed with
\* the metadata of both
C38_Witness ==
    /\ \E a, b \in DOMAIN packfile :
         /\ packfile[a].asset_metadata.id = "A"
         /\ packfile[a].artifact.metadata.load_deps
              = <<RefUuid("B"), RefUuid("B"), RefPath(PathY)>>
         /\ packfile[b].asset_metadata.id = "B"
         /\ packfile[b].artifact.metadata.load_deps = <<RefUuid("A")>>
    /\ DOMAIN callbacks = {1}
    /\ callbacks[1].kind = "metadata"
    /\ callbacks[1].request.requested_assets = <<"A">>
    /\ callbacks[1].called # <<>>
    /\ Len(callbacks[1].called[1].value) = 2

----------------------------------------------------------------------------
(* Properties of the artifact id *)

\* both calls have returned
BothHashed == \A i \in DOMAIN hash_calls : hash_calls[i].result # <<>>

\* C30: two calls with the same id, the same import_hash and dependency
\* lists holding the same set of uuids, in any order and with any
\* repetitions, return the same artifact id; so do two calls with equal
\* arguments.
C30_HashOfDependencySet ==
    \A i, j \in DOMAIN hash_calls :
        ( /\ hash_calls[i].result # <<>>
          /\ hash_calls[j].result # <<>>
          /\ hash_calls[i].id = hash_calls[j].id
          /\ hash_calls[i].import_hash = hash_calls[j].import_hash
          /\ Range(hash_calls[i].dep_list) = Range(hash_calls[j].dep_list) )
        => hash_calls[i].result = hash_calls[j].result

\* one call listed a dependency twice around another, the other call listed
\* the two once and in the opposite order: both returned the same id
C30_Witness ==
    /\ BothHashed
    /\ hash_calls[1].id = hash_calls[2].id
    /\ hash_calls[1].import_hash = hash_calls[2].import_hash
    /\ hash_calls[1].dep_list = <<(<<1, 1>>), (<<0, 1>>), (<<1, 1>>)>>
    /\ hash_calls[2].dep_list = <<(<<0, 1>>), (<<1, 1>>)>>
    /\ hash_calls[1].result = hash_calls[2].result

----------------------------------------------------------------------------
(* Properties of the example storage (StorageSpec) *)

\* what the three getters return for every handle
getters(s) ==
    [h \in LoadHandles \cup IndirectHandles |->
       [get |-> get(s, h), get_version |-> get_version(s, h),
        get_asset_with_version |-> get_asset_with_version(s, h)]]

\* the call this step made on the storage
storage_call == storage_calls'[Len(storage_calls')]

\* this step made a call of the given function on the storage
StorageCalled(fn) ==
    /\ Len(storage_calls') = Len(storage_calls) + 1
    /\ storage_call.fn = fn

\* the calls made so far on the handle, as positions in storage_calls
CallsOn(load_handle) ==
    {i \in DOMAIN storage_calls : storage_calls[i].load_handle = load_handle}

\* the last call made so far on the handle was an update_asset that returned
LastWasUpdate(load_handle) ==
    /\ CallsOn(load_handle) # {}
    /\ LET last == storage_calls[CHOOSE i \in CallsOn(load_handle) :
                                   \A j \in CallsOn(load_handle) : j <= i]
       IN  last.fn = "update_asset" /\ ~last.panicked

\* C33: a version written by update_asset is not visible to get, get_version
\* and get_asset_with_version until commit_asset_version runs: an update_asset
\* changes what none of the three returns for any handle (a committed version
\* stays, and is never replaced by None), a commit changes it for no other
\* handle, and the commit that follows the update_asset(h, v2) makes the three
\* return v2 and its asset for h.
C33_UncommittedNotVisible ==
    [][ /\ StorageCalled("update_asset") => getters(storage') = getters(storage)
        /\ ( StorageCalled("commit_asset_version") /\ ~storage_call.panicked )
           => LET h == storage_call.load_handle
                  written == storage_calls[CHOOSE i \in CallsOn(h) :
                                             \A j \in CallsOn(h) : j <= i]
              IN  /\ \A g \in LoadHandles \cup IndirectHandles :
                        resolved(storage, g) # <<h>>
                        => getters(storage')[g] = getters(storage)[g]
                  /\ LastWasUpdate(h)
                     => /\ get(storage', h) = <<written.data>>
                        /\ get_version(storage', h) = <<written.version>>
                        /\ get_asset_with_version(storage', h)
                             = <<[asset |-> written.data,
                                  version |-> written.version]>> ]_vars

\* version 1 of handle 1 was committed, version 2 written over it and then
\* committed
C33_Witness ==
    /\ Len(storage_calls) = 4
    /\ \A i \in 1..4 : storage_calls[i].load_handle = 1 /\ ~storage_calls[i].panicked
    /\ storage_calls[1].fn = "update_asset" /\ storage_calls[1].version = 1
    /\ storage_calls[2].fn = "commit_asset_version"
    /\ storage_calls[3].fn = "update_asset" /\ storage_calls[3].version = 2
    /\ storage_calls[4].fn = "commit_asset_version"
    /\ get_version(storage, 1) = <<2>>
    /\ get_version(storage, 3) = <<2>>

\* C40: after commit_asset_version(h, v) has returned, get_version reports v
\* for h, whenever v was passed to update_asset for h before, whatever
\* update_asset, commit_asset_version and free calls were made.
C40_CommitReportsItsVersion ==
    LET n == Len(storage_calls)
    IN  ( /\ n > 0
          /\ storage_calls[n].fn = "commit_asset_version"
          /\ ~storage_calls[n].panicked
          /\ \E i \in 1..(n - 1) :
               /\ storage_calls[i].fn = "update_asset"
               /\ ~storage_calls[i].panicked
               /\ storage_calls[i].load_handle = storage_calls[n].load_handle
               /\ storage_calls[i].version = storage_calls[n].version )
        => get_version(storage, storage_calls[n].load_handle)
             = <<storage_calls[n].version>>

----------------------------------------------------------------------------
(* Properties of the RON importer (ImportSpec) *)

\* this step was an import
Imported == Len(imports') = Len(imports) + 1

\* C34: over the imports that thread one state, a uuid is generated only when
\* state.id is None; state.id is set after every import, one that failed to
\* parse its source included, and is never changed once set; every import
\* that returns Ok returns exactly one asset, whose id is state.id, so all of
\* them return the same id.
C34_ImporterKeepsUuid ==
    [][ Imported
        => LET call == imports'[Len(imports')]
           IN  /\ call.new_v4 # <<>> => importer_state.id = <<>>
               /\ importer_state'.id # <<>>
               /\ importer_state.id # <<>> => importer_state'.id = importer_state.id
               /\ \A i \in DOMAIN imports' :
                    imports'[i].result.ok
                    => /\ Len(imports'[i].result.value.assets) = 1
                       /\ imports'[i].result.value.assets[1].id
                            = importer_state'.id[1] ]_vars

\* a default state went through an import that failed to parse and two that
\* returned the asset
C34_Witness ==
    /\ Len(imports) = 3
    /\ imports[1].state.id = <<>>
    /\ imports[1].new_v4 # <<>>
    /\ ~imports[1].result.ok
    /\ imports[2].result.ok
    /\ imports[3].result.ok
    /\ imports[3].result.value.assets[1].id = imports[1].new_v4[1]
    /\ importer_state.id = imports[1].new_v4

----------------------------------------------------------------------------
(* Properties of the uuid conversions (UuidSpec) *)

\* C31: for every 16-byte AssetUuid or AssetTypeId, the text form decodes to
\* the value and so does the binary form; the text form of the two arrays of
\* the tests is the one the tests expect; the binary form is the 16 bytes in
\* order and nothing else; uuid_from_slice and type_from_slice return a value
\* for a slice of exactly 16 bytes and for no other, and the value holds the
\* bytes of the slice.
C31_UuidRoundTrips ==
    /\ uuid_io.text # <<>>
       => /\ uuid_io.text[1].decoded = <<uuid_io.bytes>>
          /\ uuid_io.bytes = BYTES
             => uuid_io.text[1].encoded = 
                  <<48, 49, 48, 50, 48, 51, 48, 52, 45, 48, 53, 48, 54, 45,
                    48, 55, 48, 56, 45, 48, 57, 48, 97, 45, 48, 98, 48, 99,
                    48, 100, 48, 101, 48, 102, 49, 48>>
          /\ uuid_io.bytes = ASSET_TYPE_BYTES
             => uuid_io.text[1].encoded = 
                  <<48, 51, 48, 49, 48, 52, 48, 49, 45, 48, 53, 48, 57, 45,
                    48, 50, 48, 54, 45, 48, 53, 48, 51, 45, 48, 53, 48, 56,
                    48, 57, 48, 55, 48, 57, 48, 51>>
    /\ uuid_io.binary # <<>>
       => /\ Len(uuid_io.binary[1].encoded) = 16
          /\ \A i \in 1..16 : uuid_io.binary[1].encoded[i] = uuid_io.bytes[i]
          /\ uuid_io.binary[1].decoded = <<uuid_io.bytes>>
    /\ uuid_io.from_slice # <<>>
       => /\ (uuid_io.from_slice[1] # <<>>) = (Len(uuid_io.slice) = 16)
          /\ uuid_io.from_slice[1] # <<>>
             => uuid_io.from_slice[1][1] = uuid_io.slice

\* an AssetUuid with a byte of 0xb4 among bytes of 0xff went through the
\* three conversions, the slice being of 16 bytes
C31_Witness ==
    /\ uuid_io.type = "AssetUuid"
    /\ uuid_io.bytes = [i \in 1..16 |-> IF i = 7 THEN 180 ELSE 255]
    /\ uuid_io.text # <<>>
    /\ uuid_io.text[1].encoded = 
         <<102, 102, 102, 102, 102, 102, 102, 102, 45, 102, 102, 102, 102,
           45, 98, 52, 102, 102, 45, 102, 102, 102, 102, 45, 102, 102, 102,
           102, 102, 102, 102, 102, 102, 102, 102, 102>>
    /\ uuid_io.binary # <<>>
    /\ Len(uuid_io.slice) = 16
    /\ uuid_io.from_slice = <<<<uuid_io.bytes>>>>

====
